---- MODULE Spec2Model ----
(***************************************************************************)
(* File-storage abstraction of gokit (pkg/filesystem): the local-disk and  *)
(* the S3 backend behind the Provider facade, and the Fiber handlers that  *)
(* sanitise caller paths before they reach a backend.                      *)
(*                                                                         *)
(* A Go string is a sequence of one-character strings, so that the path    *)
(* functions (filepath.Clean, Join, Base, Dir, strings.TrimPrefix) are     *)
(* computed character by character as the library computes them.           *)
(***************************************************************************)
EXTENDS Integers, Sequences, FiniteSets, TLC

\* ------------------------------------------------------------------ bounds
\* Longest file content, in bytes.
MaxContentLen == 1

\* Most files the media hold while the HTTP handlers are exercised.
MaxFiles == 1

\* Most lines the logger writes.
MaxLines == 2

\* The number of entries S3 returns in one page of a listing (1000 in the
\* service, scaled down)
MaxKeys == 2

\* ------------------------------------------------------- strings and paths
Slash == "/"
Dot == "."
DotDot == <<".", ".">>

\* strings.HasPrefix
HasPrefix(s, p) == Len(s) >= Len(p) /\ SubSeq(s, 1, Len(p)) = p

\* strings.HasSuffix
HasSuffix(s, p) == Len(s) >= Len(p) /\ SubSeq(s, Len(s) - Len(p) + 1, Len(s)) = p

\* strings.TrimPrefix: s without the leading p, or s itself
TrimPrefix(s, p) == IF HasPrefix(s, p) THEN SubSeq(s, Len(p) + 1, Len(s)) ELSE s

\* strings.TrimSuffix: s without the trailing p, or s itself
TrimSuffix(s, p) == IF HasSuffix(s, p) THEN SubSeq(s, 1, Len(s) - Len(p)) ELSE s

\* strings.Split(s, "/"): the elements between the slashes, empty ones kept
RECURSIVE SplitSlash(_)
SplitSlash(s) ==
  IF \A i \in 1..Len(s) : s[i] # Slash
  THEN <<s>>
  ELSE LET i == CHOOSE k \in 1..Len(s) : s[k] = Slash /\ \A j \in 1..(k - 1) : s[j] # Slash
       IN  <<SubSeq(s, 1, i - 1)>> \o SplitSlash(SubSeq(s, i + 1, Len(s)))

\* strings.Join(elems, "/")
RECURSIVE JoinSlash(_)
JoinSlash(elems) ==
  IF elems = <<>> THEN <<>>
  ELSE IF Len(elems) = 1 THEN elems[1]
  ELSE elems[1] \o <<Slash>> \o JoinSlash(Tail(elems))

\* The element loop of filepath.Clean: empty and "." elements are dropped,
\* ".." removes the element before it when there is one to remove, is kept
\* when the path is relative and is dropped at the root of a rooted path.
RECURSIVE CleanElems(_, _, _)
CleanElems(elems, out, rooted) ==
  IF elems = <<>> THEN out
  ELSE LET e == Head(elems)
           rest == Tail(elems)
       IN  IF e = <<>> \/ e = <<Dot>> THEN CleanElems(rest, out, rooted)
           ELSE IF e = DotDot
                THEN IF out # <<>> /\ out[Len(out)] # DotDot
                     THEN CleanElems(rest, SubSeq(out, 1, Len(out) - 1), rooted)
                     ELSE IF ~rooted
                          THEN CleanElems(rest, Append(out, DotDot), rooted)
                          ELSE CleanElems(rest, out, rooted)
                ELSE CleanElems(rest, Append(out, e), rooted)

\* filepath.Clean
Clean(path) ==
  IF path = <<>> THEN <<Dot>>
  ELSE LET rooted == path[1] = Slash
           body == JoinSlash(CleanElems(SplitSlash(path), <<>>, rooted))
       IN  IF rooted THEN <<Slash>> \o body
           ELSE IF body = <<>> THEN <<Dot>> ELSE body

\* filepath.Join of two elements: empty elements are ignored, the rest is
\* joined with "/" and cleaned; all empty gives "".
Join(a, b) ==
  IF a = <<>> /\ b = <<>> THEN <<>>
  ELSE IF a = <<>> THEN Clean(b)
  ELSE Clean(a \o <<Slash>> \o b)

\* filepath.Join of three elements
Join3(a, b, c) ==
  IF a = <<>> THEN Join(b, c)
  ELSE Clean(a \o <<Slash>> \o b \o <<Slash>> \o c)

\* s without its trailing slashes
RECURSIVE TrimTrailingSlashes(_)
TrimTrailingSlashes(s) ==
  IF s # <<>> /\ s[Len(s)] = Slash
  THEN TrimTrailingSlashes(SubSeq(s, 1, Len(s) - 1))
  ELSE s

\* index of the last "/" of s, 0 when there is none
LastSlash(s) ==
  IF \A i \in 1..Len(s) : s[i] # Slash THEN 0
  ELSE CHOOSE k \in 1..Len(s) : s[k] = Slash /\ \A j \in (k + 1)..Len(s) : s[j] # Slash

\* filepath.Base
Base(path) ==
  IF path = <<>> THEN <<Dot>>
  ELSE LET t == TrimTrailingSlashes(path)
           b == SubSeq(t, LastSlash(t) + 1, Len(t))
       IN  IF b = <<>> THEN <<Slash>> ELSE b

\* filepath.Dir
Dir(path) == Clean(SubSeq(path, 1, LastSlash(path)))

\* ------------------------------------------------------------ configuration
\* LocalStorage.basePath: the configured root directory of the local backend
basePath == <<"/", "r">>

\* The logical paths the callers of one run hand to a backend. Each set is
\* one family of cases: a directory and a file in it; a file and a path below
\* that file; a file and the same with an absolute-path prefix; a file and a
\* path with a parent-directory element.
PathSets ==
  { { <<"d">>, <<"d", "/", "a">> },
    { <<"a">>, <<"a", "/", "b">> },
    { <<"a">>, <<"/", "a">> },
    { <<"a">>, <<".", ".", "/", "a">> } }

\* The byte values of file contents
Bytes == {1, 2}

\* The contents a caller uploads: every byte string of at most MaxContentLen bytes
Contents == UNION { [1..n -> Bytes] : n \in 0..MaxContentLen }

\* What can go wrong with the multipart source of an upload: nothing,
\* file.Open() fails, or reading it fails part-way through the copy.
Faults == {"none", "open", "read"}

\* multipart.FileHeader as Upload uses it: the content and how reading it goes
\* (the content of a source that cannot be opened is never seen)
Files == { f \in [content : Contents, fault : Faults] : f.fault = "open" => f.content = <<>> }

\* ------------------------------------------------------------------ errors
\* AppError as the callers see it: HTTP status and error code; NoErr is nil
NoErr == [http |-> 0, code |-> "nil"]

\* fserrors.NewCustomError
NewCustomError(httpCode, code) == [http |-> httpCode, code |-> code]

\* fserrors.NewError / WrapError: the code is looked up from the status
WrapError(httpCode) ==
  [http |-> httpCode,
   code |-> CASE httpCode = 400 -> "BAD_REQUEST"
              [] httpCode = 404 -> "NOT_FOUND"
              [] httpCode = 409 -> "CONFLICT"
              [] OTHER -> "INTERNAL_ERROR"]

\* fserrors.FileNotFoundError
FileNotFoundError == NewCustomError(404, "FILE_NOT_FOUND")

ErrAlreadyExists == NewCustomError(409, "FILE_ALREADY_EXISTS")

ErrInvalidPath == NewCustomError(400, "INVALID_PATH")

\* FileInfo: the record the operations return about one stored object
FileInfo(name, size, isDir) == [Name |-> name, Size |-> size, IsDirectory |-> isDir]

\* The result of one backend call. An absent stream or record is the empty
\* sequence, a present one a one-element sequence; files is List's slice.
Result(err, found, stream, info, files) ==
  [err |-> err, found |-> found, stream |-> stream, info |-> info, files |-> files]

Failure(err) == Result(err, FALSE, <<>>, <<>>, <<>>)

\* ------------------------------------------------------------- the local disk
\* A disk maps the absolute path of every existing node to the node.
DirNode == [isDir |-> TRUE, data |-> <<>>]

FileNode(data) == [isDir |-> FALSE, data |-> data]

\* The path elements of a cleaned absolute path
Elems(p) == CleanElems(SplitSlash(p), <<>>, TRUE)

\* The absolute path made of the first k of the elements
PrefixPath(elems, k) == <<Slash>> \o JoinSlash(SubSeq(elems, 1, k))

\* os.Stat on a disk: ENOENT when the path or one of its parent directories
\* is missing, ENOTDIR when a parent component is not a directory.
Stat(d, p) ==
  LET elems == Elems(p)
      n == Len(elems)
      bad == { k \in 0..(n - 1) : PrefixPath(elems, k) \notin DOMAIN d
                                   \/ ~d[PrefixPath(elems, k)].isDir }
      first == CHOOSE k \in bad : \A j \in bad : k <= j
  IN  IF bad # {}
      THEN IF PrefixPath(elems, first) \notin DOMAIN d
           THEN [errno |-> "ENOENT", isDir |-> FALSE, size |-> 0]
           ELSE [errno |-> "ENOTDIR", isDir |-> FALSE, size |-> 0]
      ELSE IF p \notin DOMAIN d
           THEN [errno |-> "ENOENT", isDir |-> FALSE, size |-> 0]
           ELSE [errno |-> "OK", isDir |-> d[p].isDir, size |-> Len(d[p].data)]

\* errors.Is(err, fs.ErrNotExist) and os.IsNotExist: true of ENOENT alone
IsNotExist(st) == st.errno = "ENOENT"

\* os.MkdirAll: creates the directory and its missing parents; fails, having
\* created nothing, when a component of the path exists and is no directory.
MkdirAll(d, p) ==
  LET elems == Elems(p)
      all == { PrefixPath(elems, k) : k \in 0..Len(elems) }
  IN  IF \E q \in all : q \in DOMAIN d /\ ~d[q].isDir
      THEN [ok |-> FALSE, disk |-> d]
      ELSE [ok |-> TRUE,
            disk |-> [q \in DOMAIN d \cup all |-> IF q \in DOMAIN d THEN d[q] ELSE DirNode]]

\* os.Create made exclusive (O_EXCL): it fails when the path exists. Variant
\* of Create, against which C4 is shown to depend on the truncation.
CreateExclusive(d, p) ==
  LET parent == Stat(d, Dir(p))
  IN  IF parent.errno = "OK" /\ parent.isDir /\ p \notin DOMAIN d
      THEN [ok |-> TRUE,
            disk |-> [q \in DOMAIN d \cup {p} |-> IF q = p THEN FileNode(<<>>) ELSE d[q]]]
      ELSE [ok |-> FALSE, disk |-> d]

\* os.Create: creates the file or truncates the existing one; fails when the
\* parent is no directory or the path is a directory.
Create(d, p) ==
  LET parent == Stat(d, Dir(p))
  IN  IF parent.errno = "OK" /\ parent.isDir /\ ~(p \in DOMAIN d /\ d[p].isDir)
      THEN [ok |-> TRUE,
            disk |-> [q \in DOMAIN d \cup {p} |-> IF q = p THEN FileNode(<<>>) ELSE d[q]]]
      ELSE [ok |-> FALSE, disk |-> d]

\* io.Copy into the file opened by os.Create: the bytes are written from
\* offset 0 over what the file holds.
WriteAt0(old, bytes) == bytes \o SubSeq(old, Len(bytes) + 1, Len(old))

\* A copy that loses the last byte. Variant of CopyInto, against which C2 is
\* shown to depend on the whole content being written.
CopyIntoShort(d, p, bytes) ==
  [q \in DOMAIN d |->
     IF q = p THEN FileNode(WriteAt0(d[q].data, SubSeq(bytes, 1, Len(bytes) - 1))) ELSE d[q]]

CopyInto(d, p, bytes) ==
  [q \in DOMAIN d |-> IF q = p THEN FileNode(WriteAt0(d[q].data, bytes)) ELSE d[q]]

\* A removal that removes nothing. Variant of Remove, against which C3 is
\* shown to depend on the file being removed.
RemoveNothing(d, p) == d

\* os.Remove of a file
Remove(d, p) == [q \in DOMAIN d \ {p} |-> d[q]]

\* ------------------------------------------------------------------- state
VARIABLES
  backend,            \* Config.StorageType: "local" or "s3"
  createDirectories,  \* LocalStorage.createDirectories
  basePrefix,         \* S3Storage.basePrefix
  disk,               \* the local filesystem: absolute path -> node
  bucket,             \* the S3 bucket: key -> object
  paths,              \* the logical paths the callers of this run use
  last,               \* the latest backend call and what it returned
  deleted,            \* history: locations deleted, and not uploaded with success since
  untouched,          \* history: locations deleted, and no upload made at or below since
  pc,                 \* concurrent uploads: where each uploader is in Upload
  call,               \* concurrent uploads: the call each uploader is making
  handlerConfig,      \* UploadHandlerConfig of the HTTP handlers
  response,           \* the latest HTTP response of a handler
  inferred,           \* the latest content type taken, and what it was taken of
  ctx,                \* the context.Context of the calls: "live" or "cancelled"
  built,              \* the latest construction of a provider and what it returned
  pagination,         \* the latest Paginate call and what it returned
  logger,             \* the Logger: its level, the lines written, whether it exited
  handles             \* the handles the latest tracked call opened, closed and returned

vars ==
  <<backend, createDirectories, basePrefix, paths, disk, bucket, last, deleted, untouched,
    pc, call, handlerConfig, response, inferred, ctx, built, pagination, logger,
    handles>>

config == <<backend, createDirectories, basePrefix, paths, ctx>>

history == <<deleted, untouched>>

uploaders == <<pc, call>>

http == <<handlerConfig, response>>

kit == <<built, pagination, logger, handles>>

\* ----------------------------------------------------------- ordering of names
\* The byte value of a character, which os.ReadDir and S3 listings sort by
CharCode(c) ==
  CASE c = "." -> 46 [] c = "/" -> 47 [] c = ":" -> 58 [] c = "T" -> 84
    [] c = "_" -> 95 [] c = "a" -> 97 [] c = "b" -> 98 [] c = "d" -> 100
    [] c = "p" -> 112 [] c = "r" -> 114 [] c = "t" -> 116 [] c = "u" -> 117
    [] c = "x" -> 120 [] c = "y" -> 121

\* s sorts strictly before t, byte by byte
RECURSIVE Less(_, _)
Less(s, t) ==
  IF t = <<>> THEN FALSE
  ELSE IF s = <<>> THEN TRUE
  ELSE IF s[1] # t[1] THEN CharCode(s[1]) < CharCode(t[1])
  ELSE Less(Tail(s), Tail(t))

\* The strings of a set in ascending order
RECURSIVE Sorted(_)
Sorted(S) ==
  IF S = {} THEN <<>>
  ELSE LET m == CHOOSE x \in S : \A y \in S \ {x} : Less(x, y)
       IN  <<m>> \o Sorted(S \ {m})

\* ------------------------------------------------------------- local backend
\* The check without the refusal to overwrite. Variant of LocalUploadCheck,
\* against which C1 is shown to depend on the existence check.
LocalUploadCheckNoRefusal(d, path) ==
  LET fullPath == Join(basePath, path)
      dir == Dir(fullPath)
      mk == MkdirAll(d, dir)
  IN  IF createDirectories /\ ~mk.ok
      THEN [ok |-> FALSE, disk |-> d, err |-> WrapError(500)]
      ELSE IF ~createDirectories /\ IsNotExist(Stat(d, dir))
      THEN [ok |-> FALSE, disk |-> d, err |-> WrapError(400)]
      ELSE [ok |-> TRUE, disk |-> IF createDirectories THEN mk.disk ELSE d, err |-> NoErr]

\* LocalStorage.Upload up to and including the existence check: the directory
\* policy (created when createDirectories is set, required otherwise), then
\* the refusal to overwrite. ok means the upload goes on to write.
LocalUploadCheck(d, path) ==
  LET fullPath == Join(basePath, path)
      dir == Dir(fullPath)
      mk == MkdirAll(d, dir)
  IN  IF createDirectories /\ ~mk.ok
      THEN [ok |-> FALSE, disk |-> d, err |-> WrapError(500)]
      ELSE IF ~createDirectories /\ IsNotExist(Stat(d, dir))
      THEN [ok |-> FALSE, disk |-> d, err |-> WrapError(400)]
      ELSE LET d1 == IF createDirectories THEN mk.disk ELSE d
           IN  IF Stat(d1, fullPath).errno = "OK"
               THEN [ok |-> FALSE, disk |-> d1, err |-> ErrAlreadyExists]
               ELSE [ok |-> TRUE, disk |-> d1, err |-> NoErr]

\* LocalStorage.Upload after the check: open the source and create the
\* destination. ok means the upload goes on to copy.
LocalUploadCreate(d, file, path) ==
  LET cr == Create(d, Join(basePath, path))
  IN  IF file.fault = "open" THEN [ok |-> FALSE, disk |-> d, err |-> WrapError(500)]
      ELSE IF ~cr.ok THEN [ok |-> FALSE, disk |-> d, err |-> WrapError(500)]
      ELSE [ok |-> TRUE, disk |-> cr.disk, err |-> NoErr]

\* LocalStorage.Upload from the copy on: copy, stat, return the record. k is
\* the number of bytes copied before a read fault stops the copy.
LocalUploadCopy(d, file, path, k) ==
  LET fullPath == Join(basePath, path)
  IN  IF file.fault = "read"
      THEN [disk |-> CopyInto(d, fullPath, SubSeq(file.content, 1, k)),
            res |-> Failure(WrapError(500))]
      ELSE LET d2 == CopyInto(d, fullPath, file.content)
               st == Stat(d2, fullPath)
           IN  [disk |-> d2,
                res |-> Result(NoErr, FALSE, <<>>,
                               <<FileInfo(Base(path), st.size, FALSE)>>, <<>>)]

\* LocalStorage.Upload once file.Open and os.Create gave cr: return the
\* error, or copy
CopyIfCreated(cr, file, path, k) ==
  IF ~cr.ok THEN [disk |-> cr.disk, res |-> Failure(cr.err)]
  ELSE LocalUploadCopy(cr.disk, file, path, k)

\* LocalStorage.Upload after the check: create, then copy
LocalUploadWrite(d, file, path, k) ==
  CopyIfCreated(LocalUploadCreate(d, file, path), file, path, k)

\* LocalStorage.Upload once the check gave chk: return the error, or write
WriteIfAbsent(chk, file, path, k) ==
  IF ~chk.ok THEN [disk |-> chk.disk, res |-> Failure(chk.err)]
  ELSE LocalUploadWrite(chk.disk, file, path, k)

\* LocalStorage.Upload
LocalUpload(d, file, path, k) == WriteIfAbsent(LocalUploadCheck(d, path), file, path, k)

\* LocalStorage.Get
LocalGet(d, path) ==
  LET fullPath == Join(basePath, path)
      st == Stat(d, fullPath)
  IN  IF st.errno # "OK"
      THEN IF IsNotExist(st) THEN Failure(FileNotFoundError) ELSE Failure(WrapError(500))
      ELSE IF st.isDir THEN Failure(ErrInvalidPath)
      ELSE Result(NoErr, FALSE, <<d[fullPath].data>>,
                  <<FileInfo(Base(path), st.size, FALSE)>>, <<>>)

\* LocalStorage.Delete
LocalDelete(d, path) ==
  LET fullPath == Join(basePath, path)
      st == Stat(d, fullPath)
  IN  IF st.errno # "OK"
      THEN [disk |-> d,
            res |-> IF IsNotExist(st) THEN Failure(FileNotFoundError)
                    ELSE Failure(WrapError(500))]
      ELSE IF st.isDir THEN [disk |-> d, res |-> Failure(ErrInvalidPath)]
      ELSE [disk |-> Remove(d, fullPath), res |-> Failure(NoErr)]

\* LocalStorage.Exists
LocalExists(d, path) ==
  LET st == Stat(d, Join(basePath, path))
  IN  IF st.errno # "OK"
      THEN IF IsNotExist(st) THEN Failure(NoErr) ELSE Failure(WrapError(500))
      ELSE Result(NoErr, TRUE, <<>>, <<>>, <<>>)

\* os.ReadDir: the names of the direct children of a directory, sorted
\* A directory read that returns the first entry only. Variant of ReadDir,
\* against which C13 is shown to depend on every child being listed.
ReadDirFirst(d, p) ==
  LET entries == Sorted({ Base(q) : q \in { x \in DOMAIN d : x # p /\ Dir(x) = p } })
  IN  IF entries = <<>> THEN <<>> ELSE <<entries[1]>>

ReadDir(d, p) == Sorted({ Base(q) : q \in { x \in DOMAIN d : x # p /\ Dir(x) = p } })

\* A listing that names a plain file by its whole path. Variant of LocalList,
\* against which C10 is shown to depend on the base name.
LocalListWholePath(d, path) ==
  LET st == Stat(d, Join(basePath, path))
  IN  IF st.errno # "OK" THEN Failure(FileNotFoundError)
      ELSE Result(NoErr, FALSE, <<>>, <<>>, <<FileInfo(path, st.size, FALSE)>>)

\* LocalStorage.List
LocalList(d, path) ==
  LET fullPath == Join(basePath, path)
      st == Stat(d, fullPath)
      entries == ReadDir(d, fullPath)
      node(i) == d[Join(fullPath, entries[i])]
  IN  IF st.errno # "OK"
      THEN IF IsNotExist(st) THEN Failure(FileNotFoundError) ELSE Failure(WrapError(500))
      ELSE IF ~st.isDir
      THEN Result(NoErr, FALSE, <<>>, <<>>, <<FileInfo(Base(path), st.size, FALSE)>>)
      ELSE Result(NoErr, FALSE, <<>>, <<>>,
                  [i \in 1..Len(entries) |->
                     FileInfo(entries[i], Len(node(i).data), node(i).isDir)])

\* LocalStorage.GetInfo
LocalGetInfo(d, path) ==
  LET st == Stat(d, Join(basePath, path))
  IN  IF st.errno # "OK"
      THEN IF IsNotExist(st) THEN Failure(FileNotFoundError) ELSE Failure(WrapError(500))
      ELSE Result(NoErr, FALSE, <<>>, <<FileInfo(Base(path), st.size, st.isDir)>>, <<>>)

\* ---------------------------------------------------------------- S3 backend
\* S3Storage.getFullKey
getFullKey(path) == IF basePrefix = <<>> THEN path ELSE Join(basePrefix, path)

\* An object of the bucket
Object(data) == [data |-> data]

\* client.HeadObject: the SDK sends nothing under a context that is done, and
\* refuses an empty key before sending; a key that is not in the bucket
\* answers NotFound.
HeadObject(b, key) ==
  IF ctx = "cancelled" THEN "Canceled"
  ELSE IF key = <<>> THEN "InvalidKey"
  ELSE IF key \in DOMAIN b THEN "OK"
  ELSE "NotFound"

\* uploader.Upload (PutObject): stores the object, replacing the one under the key
PutObject(b, key, data) ==
  [q \in DOMAIN b \cup {key} |-> IF q = key THEN Object(data) ELSE b[q]]

\* client.DeleteObject
DeleteObject(b, key) == [q \in DOMAIN b \ {key} |-> b[q]]

\* S3Storage.Exists
S3Exists(b, path) ==
  LET head == HeadObject(b, getFullKey(path))
  IN  IF head = "NotFound" THEN Failure(NoErr)
      ELSE IF head # "OK" THEN Failure(WrapError(500))
      ELSE Result(NoErr, TRUE, <<>>, <<>>, <<>>)

\* S3Storage.Upload up to and including the existence check: the source is
\* opened and read into memory, then Exists decides. ok means the upload goes
\* on to PutObject.
S3UploadCheck(b, file, path) ==
  LET exists == S3Exists(b, path)
  IN  IF file.fault = "open" THEN [ok |-> FALSE, err |-> WrapError(500)]
      ELSE IF file.fault = "read" THEN [ok |-> FALSE, err |-> WrapError(500)]
      ELSE IF exists.err # NoErr THEN [ok |-> FALSE, err |-> WrapError(500)]
      ELSE IF exists.found THEN [ok |-> FALSE, err |-> ErrAlreadyExists]
      ELSE [ok |-> TRUE, err |-> NoErr]

\* S3Storage.Upload after the check: PutObject and the record returned
S3UploadWrite(b, file, path) ==
  [bucket |-> PutObject(b, getFullKey(path), file.content),
   res |-> Result(NoErr, FALSE, <<>>,
                  <<FileInfo(Base(path), Len(file.content), FALSE)>>, <<>>)]

\* S3Storage.Upload
S3Upload(b, file, path) ==
  LET chk == S3UploadCheck(b, file, path)
  IN  IF ~chk.ok THEN [bucket |-> b, res |-> Failure(chk.err)]
      ELSE S3UploadWrite(b, file, path)

\* S3Storage.Get
S3Get(b, path) ==
  LET fullKey == getFullKey(path)
      head == HeadObject(b, fullKey)
  IN  IF head = "NotFound" THEN Failure(FileNotFoundError)
      ELSE IF head # "OK" THEN Failure(WrapError(500))
      ELSE Result(NoErr, FALSE, <<b[fullKey].data>>,
                  <<FileInfo(Base(path), Len(b[fullKey].data), FALSE)>>, <<>>)

\* S3Storage.Delete
S3Delete(b, path) ==
  LET exists == S3Exists(b, path)
  IN  IF exists.err # NoErr THEN [bucket |-> b, res |-> Failure(WrapError(500))]
      ELSE IF ~exists.found THEN [bucket |-> b, res |-> Failure(FileNotFoundError)]
      ELSE [bucket |-> DeleteObject(b, getFullKey(path)), res |-> Failure(NoErr)]

\* S3Storage.GetInfo
S3GetInfo(b, path) ==
  LET fullKey == getFullKey(path)
      head == HeadObject(b, fullKey)
  IN  IF head = "NotFound" THEN Failure(FileNotFoundError)
      ELSE IF head # "OK" THEN Failure(WrapError(500))
      ELSE Result(NoErr, FALSE, <<>>,
                  <<FileInfo(Base(path), Len(b[fullKey].data), FALSE)>>, <<>>)

\* The prefix S3Storage.List asks the bucket for
ListPrefix(path) ==
  LET withSlash(k) == IF k # <<>> /\ ~HasSuffix(k, <<Slash>>) THEN k \o <<Slash>> ELSE k
  IN  IF path = <<>> \/ path = <<Slash>> THEN withSlash(basePrefix)
      ELSE withSlash(getFullKey(path))

\* client.ListObjectsV2 with the delimiter "/", called once and without a
\* continuation token: of the keys under the prefix that have no further "/"
\* and the prefixes up to the next "/" of the others, taken together in key
\* order, the first page of at most MaxKeys entries, as Contents and
\* CommonPrefixes.
ListObjectsV2(b, prefix) ==
  LET under == { k \in DOMAIN b : HasPrefix(k, prefix) }
      rest(k) == SubSeq(k, Len(prefix) + 1, Len(k))
      deeper(k) == \E i \in 1..Len(rest(k)) : rest(k)[i] = Slash
      cut(k) == prefix \o SplitSlash(rest(k))[1] \o <<Slash>>
      grouped == { cut(k) : k \in { x \in under : deeper(x) } }
      entries == Sorted({ k \in under : ~deeper(k) } \cup grouped)
      page == SubSeq(entries, 1, IF Len(entries) < MaxKeys THEN Len(entries) ELSE MaxKeys)
  IN  [Contents |-> SelectSeq(page, LAMBDA e : e \notin grouped),
       CommonPrefixes |-> SelectSeq(page, LAMBDA e : e \in grouped),
       IsTruncated |-> Len(entries) > MaxKeys]

\* S3Storage.List
S3List(b, path) ==
  LET fullPrefix == ListPrefix(path)
      output == ListObjectsV2(b, fullPrefix)
      dirs == [i \in 1..Len(output.CommonPrefixes) |->
                 FileInfo(Base(TrimSuffix(output.CommonPrefixes[i], <<Slash>>)), 0, TRUE)]
      keys == SelectSeq(output.Contents,
                        LAMBDA k : ~HasSuffix(k, <<Slash>>) /\ k # fullPrefix)
      objs == [i \in 1..Len(keys) |-> FileInfo(Base(keys[i]), Len(b[keys[i]].data), FALSE)]
      files == dirs \o objs
      info == S3GetInfo(b, path)
  IN  IF ctx = "cancelled" THEN Failure(WrapError(500))
      ELSE IF files = <<>> /\ ~HasSuffix(fullPrefix, <<Slash>>) /\ info.err = NoErr
      THEN Result(NoErr, FALSE, <<>>, <<>>, info.info)
      ELSE Result(NoErr, FALSE, <<>>, <<>>, files)

\* ------------------------------------------------------------ the handles
\* What a call did with streams and file handles: the ones it opened, the
\* ones it had closed when it returned, the ones it returned to its caller,
\* and the error it returned.
Ledger(op, opened, closed, returned, err) ==
  [op |-> op, opened |-> opened, closed |-> closed, returned |-> returned, err |-> err]

NoHandles == Ledger("none", {}, {}, {}, NoErr)

\* ------------------------------------------------------------ the logger
\* LogLevel: DEBUG is the lowest level and FATAL the highest
DEBUG == 0

FATAL == 4

\* NewLogger: the level is DEBUG and nothing is written yet
NewLogger ==
  [logLevel |-> DEBUG, output |-> <<>>, exited |-> FALSE,
   call |-> [op |-> "none", arg |-> 0]]

\* ------------------------------------------------- Provider calls, one caller
\* The disk NewLocalStorage leaves: the root directory exists
RootDisk == [q \in { <<Slash>>, basePath } |-> DirNode]

\* The same with a directory d that an earlier run left under the root
RootDiskWithDir ==
  [q \in { <<Slash>>, basePath, Join(basePath, <<"d">>) } |-> DirNode]

EmptyBucket == [q \in {} |-> Object(<<>>)]

\* The key prefixes the S3 backend is configured with: none, or "p"
Prefixes == { <<>>, <<"p">> }

NoFile == [content |-> <<>>, fault |-> "none"]

\* The record kept of a call
Call(op, path, file, res) == [op |-> op, path |-> path, file |-> file, res |-> res]

NoCall == Call("none", <<>>, NoFile, Failure(NoErr))

\* Where a logical path is stored: the file path on disk, or the object key
Location(path) == IF backend = "local" THEN Join(basePath, path) ELSE getFullKey(path)

\* loc lies below the directory (or key prefix) anc
IsBeneath(loc, anc) == loc # anc /\ HasPrefix(loc, TrimTrailingSlashes(anc) \o <<Slash>>)

\* The outcome of a call for both media: a local call leaves the bucket, an
\* S3 call the disk, and a read both, as they are.
OnDisk(r) == [disk |-> r.disk, bucket |-> bucket, res |-> r.res]

InBucket(r) == [disk |-> disk, bucket |-> r.bucket, res |-> r.res]

Reading(res) == [disk |-> disk, bucket |-> bucket, res |-> res]

\* The Storage the Provider holds, operation by operation: each gives the
\* media after the call and the result of the call.
StorageUpload(file, path, k) ==
  IF backend = "local" THEN OnDisk(LocalUpload(disk, file, path, k))
  ELSE InBucket(S3Upload(bucket, file, path))

StorageDelete(path) ==
  IF backend = "local" THEN OnDisk(LocalDelete(disk, path))
  ELSE InBucket(S3Delete(bucket, path))

StorageGet(path) == IF backend = "local" THEN LocalGet(disk, path) ELSE S3Get(bucket, path)

StorageExists(path) ==
  IF backend = "local" THEN LocalExists(disk, path) ELSE S3Exists(bucket, path)

StorageList(path) == IF backend = "local" THEN LocalList(disk, path) ELSE S3List(bucket, path)

StorageGetInfo(path) ==
  IF backend = "local" THEN LocalGetInfo(disk, path) ELSE S3GetInfo(bucket, path)

\* The two callers that upload concurrently
Procs == {1, 2}

\* A handler's response: the HTTP status and the error code of the body
Response(status, code) == [status |-> status, code |-> code]

NoResponse == Response(0, "none")

\* The response that carries an AppError
ErrorResponse(err) == Response(err.http, err.code)

\* GetUploadHandlerConfig and the handler getters of FilesystemProvider: the
\* base path is empty or a directory name; the size limit admits nothing but
\* the empty file, or every content; the type list is empty (all types) or
\* holds ".t"; names are kept or replaced by UUIDs.
HandlerConfigs ==
  { [BasePath |-> <<>>, AllowedTypes |-> {}, MaxFileSize |-> MaxContentLen, UseUUID |-> FALSE],
    [BasePath |-> <<"u">>, AllowedTypes |-> {<<".", "t">>}, MaxFileSize |-> MaxContentLen,
     UseUUID |-> TRUE],
    [BasePath |-> <<"u">>, AllowedTypes |-> {}, MaxFileSize |-> 0, UseUUID |-> FALSE] }

\* No handler is mounted: the backends are called directly
NoHandlers == [BasePath |-> <<>>, AllowedTypes |-> {}, MaxFileSize |-> 0, UseUUID |-> FALSE]

\* The backend NewStorageProvider builds and the media it starts on
InitStorage ==
  /\ backend \in {"local", "s3"}
  /\ createDirectories \in (IF backend = "local" THEN BOOLEAN ELSE {FALSE})
  /\ basePrefix \in (IF backend = "s3" THEN Prefixes ELSE {<<>>})
  /\ disk \in (IF backend = "local" THEN {RootDisk, RootDiskWithDir} ELSE {RootDisk})
  /\ bucket = EmptyBucket
  /\ last = NoCall
  /\ deleted = {}
  /\ untouched = {}
  /\ inferred = [op |-> "none"]
  /\ ctx = "live"
  /\ built = [op |-> "none"]
  /\ pagination = [op |-> "none"]
  /\ logger = NewLogger
  /\ handles = NoHandles

Init ==
  /\ InitStorage
  /\ paths \in PathSets
  /\ pc = [p \in Procs |-> "idle"]
  /\ call = [p \in Procs |-> NoCall]
  /\ handlerConfig = NoHandlers
  /\ response = NoResponse

\* The call op(path) gave r: the media and the record of the latest call
Returned(op, path, file, r) ==
  /\ disk' = r.disk
  /\ bucket' = r.bucket
  /\ last' = Call(op, path, file, r.res)

\* Provider.Upload
Upload(path, file, k) ==
  /\ Returned("Upload", path, file, StorageUpload(file, path, k))
  /\ deleted' = IF last'.res.err = NoErr THEN deleted \ {Location(path)} ELSE deleted
  /\ untouched' =
       { x \in untouched :
           /\ x # Location(path)
           /\ ~(backend = "local" /\ createDirectories /\ IsBeneath(Location(path), x)) }
  /\ UNCHANGED <<config, kit, inferred, uploaders, http>>

\* Provider.Get
Get(path) ==
  /\ Returned("Get", path, NoFile, Reading(StorageGet(path)))
  /\ UNCHANGED <<config, kit, inferred, history, uploaders, http>>

\* Provider.Delete
Delete(path) ==
  /\ Returned("Delete", path, NoFile, StorageDelete(path))
  /\ deleted' = IF last'.res.err = NoErr THEN deleted \cup {Location(path)} ELSE deleted
  /\ untouched' = IF last'.res.err = NoErr THEN untouched \cup {Location(path)} ELSE untouched
  /\ UNCHANGED <<config, kit, inferred, uploaders, http>>

\* Provider.Exists
Exists(path) ==
  /\ Returned("Exists", path, NoFile, Reading(StorageExists(path)))
  /\ UNCHANGED <<config, kit, inferred, history, uploaders, http>>

\* Provider.List
List(path) ==
  /\ Returned("List", path, NoFile, Reading(StorageList(path)))
  /\ UNCHANGED <<config, kit, inferred, history, uploaders, http>>

\* Provider.GetInfo
GetInfo(path) ==
  /\ Returned("GetInfo", path, NoFile, Reading(StorageGetInfo(path)))
  /\ UNCHANGED <<config, kit, inferred, history, uploaders, http>>

\* The number of bytes a faulty read delivers before it fails: fewer than all
Delivered(file) ==
  IF file.fault = "read" /\ file.content # <<>> THEN 0..(Len(file.content) - 1) ELSE {0}

Next ==
  \/ \E path \in paths, file \in Files : \E k \in Delivered(file) : Upload(path, file, k)
  \/ \E path \in paths : Get(path)
  \/ \E path \in paths : Delete(path)
  \/ \E path \in paths : Exists(path)
  \/ \E path \in paths : List(path)
  \/ \E path \in paths : GetInfo(path)

Spec == Init /\ [][Next]_vars

\* ------------------------------------------------------------- cancellation
\* The context the callers pass is cancelled, or its deadline passes
Cancel ==
  /\ ctx = "live"
  /\ ctx' = "cancelled"
  /\ UNCHANGED <<backend, createDirectories, basePrefix, paths, disk, bucket, last,
                 history, uploaders, http, inferred, kit>>

NextCancel == Next \/ Cancel

SpecCancel == Init /\ [][NextCancel]_vars

\* ------------------------------------------------ two concurrent uploaders
\* Upload is not atomic: between its existence check, the creation of the
\* destination and the copy (local), or between the check and PutObject (S3),
\* the other uploader may take steps.
InitConc ==
  /\ InitStorage
  /\ paths \in PathSets
  /\ pc = [p \in Procs |-> "idle"]
  /\ call = [p \in Procs |-> NoCall]
  /\ handlerConfig = NoHandlers
  /\ response = NoResponse

\* The uploader returns from Upload
Return(p, res) ==
  /\ pc' = [pc EXCEPT ![p] = "done"]
  /\ call' = [call EXCEPT ![p].res = res]

Goto(p, label) ==
  /\ pc' = [pc EXCEPT ![p] = label]
  /\ UNCHANGED call

\* Provider.Upload is called
BeginUpload(p, path, file) ==
  /\ pc[p] = "idle"
  /\ pc' = [pc EXCEPT ![p] = "check"]
  /\ call' = [call EXCEPT ![p] = Call("Upload", path, file, Failure(NoErr))]
  /\ UNCHANGED <<config, kit, inferred, disk, bucket, last, history, http>>

\* The step of uploader p gave step: on to the next label, or return the error
Proceed(p, step, label) ==
  IF step.ok THEN Goto(p, label) ELSE Return(p, Failure(step.err))

\* A step of LocalStorage.Upload gave step: the disk it leaves, and where the
\* uploader goes
LocalStep(p, step, label) ==
  /\ disk' = step.disk
  /\ Proceed(p, step, label)

\* Upload up to and including its existence check
CheckExists(p) ==
  /\ pc[p] = "check"
  /\ IF backend = "local"
     THEN LocalStep(p, LocalUploadCheck(disk, call[p].path), "create")
     ELSE /\ disk' = disk
          /\ Proceed(p, S3UploadCheck(bucket, call[p].file, call[p].path), "put")
  /\ UNCHANGED <<config, kit, inferred, bucket, last, history, http>>

\* LocalStorage.Upload: file.Open and os.Create
CreateDestination(p) ==
  /\ pc[p] = "create"
  /\ LocalStep(p, LocalUploadCreate(disk, call[p].file, call[p].path), "copy")
  /\ UNCHANGED <<config, kit, inferred, bucket, last, history, http>>

\* The last step of Upload gave r
Finish(p, r) ==
  /\ disk' = r.disk
  /\ bucket' = r.bucket
  /\ Return(p, r.res)

\* LocalStorage.Upload: io.Copy, os.Stat and return
CopyContents(p, k) ==
  /\ pc[p] = "copy"
  /\ Finish(p, OnDisk(LocalUploadCopy(disk, call[p].file, call[p].path, k)))
  /\ UNCHANGED <<config, kit, inferred, last, history, http>>

\* S3Storage.Upload: uploader.Upload and return
PutContents(p) ==
  /\ pc[p] = "put"
  /\ Finish(p, InBucket(S3UploadWrite(bucket, call[p].file, call[p].path)))
  /\ UNCHANGED <<config, kit, inferred, last, history, http>>

NextConc ==
  \/ \E p \in Procs, path \in paths, file \in Files : BeginUpload(p, path, file)
  \/ \E p \in Procs : CheckExists(p)
  \/ \E p \in Procs : CreateDestination(p)
  \/ \E p \in Procs : \E k \in Delivered(call[p].file) : CopyContents(p, k)
  \/ \E p \in Procs : PutContents(p)

SpecConc == InitConc /\ [][NextConc]_vars

\* ---------------------------------------------------------- HTTP handlers
\* filepath.Ext: the suffix from the last "." of the last element
Ext(path) ==
  LET dots == { i \in 1..Len(path) : path[i] = Dot /\ \A j \in i..Len(path) : path[j] # Slash }
  IN  IF dots = {} THEN <<>>
      ELSE SubSeq(path, CHOOSE i \in dots : \A j \in dots : j <= i, Len(path))

\* The letters strings.ToLower maps: each lower-case letter with its upper case
Letters ==
  << <<"a", "A">>, <<"b", "B">>, <<"c", "C">>, <<"d", "D">>, <<"e", "E">>,
     <<"f", "F">>, <<"g", "G">>, <<"h", "H">>, <<"i", "I">>, <<"j", "J">>,
     <<"k", "K">>, <<"l", "L">>, <<"m", "M">>, <<"n", "N">>, <<"o", "O">>,
     <<"p", "P">>, <<"q", "Q">>, <<"r", "R">>, <<"s", "S">>, <<"t", "T">>,
     <<"u", "U">>, <<"v", "V">>, <<"w", "W">>, <<"x", "X">>, <<"y", "Y">>,
     <<"z", "Z">> >>

\* strings.ToLower
ToLower(s) ==
  [i \in 1..Len(s) |->
     IF \E n \in 1..Len(Letters) : Letters[n][2] = s[i]
     THEN Letters[CHOOSE n \in 1..Len(Letters) : Letters[n][2] = s[i]][1]
     ELSE s[i]]

\* sanitizeFilename: the base name with the dangerous characters replaced
sanitizeFilename(filename) ==
  LET base == Base(filename)
      bad == {"/", "\\", ":", "*", "?", "\"", "<", ">", "|", "%"}
  IN  [i \in 1..Len(base) |-> IF base[i] \in bad THEN "_" ELSE base[i]]

\* sanitizePath
sanitizePath(path) ==
  TrimPrefix(TrimPrefix(Clean(path), <<".", ".", "/">>), <<Slash>>)

\* The paths callers put in the URL or in the "path" form value. Each set is
\* one family of cases: a bare ".." and a plain name; one leading ".." and an
\* absolute path; two leading ".." and a ".." inside the path.
RawPathSets ==
  { { <<".", ".">>, <<"a">> },
    { <<".", ".", "/", "a">>, <<"/", "a">> },
    { <<".", ".", "/", ".", ".", "/", "a">>, <<"d", "/", ".", ".", "/", "a">> } }

\* The file names of uploaded parts
Filenames == { <<"a">>, <<"d", "/", "b", ":", ".", "T">> }

\* The names uuid.New() gives; a name is given once
UUIDs == { <<"x">>, <<"y">> }

Fresh(id) == \A q \in DOMAIN disk \cup DOMAIN bucket : ~HasPrefix(Base(q), id)

\* The files and objects the media hold
StoredFiles == { q \in DOMAIN disk : ~disk[q].isDir } \cup DOMAIN bucket

InitHandler ==
  /\ InitStorage
  /\ disk = RootDisk
  /\ paths \in RawPathSets
  /\ pc = [p \in Procs |-> "idle"]
  /\ call = [p \in Procs |-> NoCall]
  /\ handlerConfig \in HandlerConfigs
  /\ response = NoResponse

\* A handler answers without calling the backend
Refuse(status, code) ==
  /\ response' = Response(status, code)
  /\ UNCHANGED <<disk, bucket, last>>

\* A handler answers with what the backend call op(fullPath) gave: the
\* AppError's status and code, or 200
Answer(op, fullPath, file, r) ==
  /\ Returned(op, fullPath, file, r)
  /\ response' = IF r.res.err # NoErr THEN ErrorResponse(r.res.err) ELSE Response(200, "OK")

\* The name UploadHandler stores the part under
StoredName(filename, id) ==
  IF handlerConfig.UseUUID THEN id \o Ext(filename) ELSE sanitizeFilename(filename)

\* The custom path of UploadHandler after its sanitisation
CustomPath(customPath) ==
  IF customPath # <<>> THEN TrimPrefix(Clean(customPath), <<".", ".", "/">>) ELSE customPath

\* UploadHandler from the join with the base path on
UploadTo(fullPath, file, k) == Answer("Upload", fullPath, file, StorageUpload(file, fullPath, k))

\* An upload handler without the size check. Variant of UploadHandler,
\* against which C23 is shown to depend on the handler enforcing the limit.
UploadHandlerAnySize(present, filename, customPath, file, id, k) ==
  /\ IF ~present THEN Refuse(400, "BAD_REQUEST")
     ELSE /\ Cardinality(StoredFiles) < MaxFiles
          /\ UploadTo(Join3(handlerConfig.BasePath, CustomPath(customPath),
                            StoredName(filename, id)), file, k)
  /\ UNCHANGED <<config, kit, inferred, history, uploaders, handlerConfig>>

\* UploadHandler. present: the request has a "file" part; id: the UUID drawn.
UploadHandler(present, filename, customPath, file, id, k) ==
  /\ IF ~present THEN Refuse(400, "BAD_REQUEST")
     ELSE IF Len(file.content) > handlerConfig.MaxFileSize
     THEN Refuse(400, "FILE_TOO_LARGE")
     ELSE IF /\ handlerConfig.AllowedTypes # {}
             /\ ToLower(Ext(filename)) \notin handlerConfig.AllowedTypes
     THEN Refuse(400, "BAD_REQUEST")
     ELSE /\ Cardinality(StoredFiles) < MaxFiles
          /\ UploadTo(Join3(handlerConfig.BasePath, CustomPath(customPath),
                            StoredName(filename, id)), file, k)
  /\ UNCHANGED <<config, kit, inferred, history, uploaders, handlerConfig>>

\* The path a handler hands to the backend for the URL parameter
FullPath(path) == Join(handlerConfig.BasePath, sanitizePath(path))

\* GetFileHandler and DeleteFileHandler when Exists gave no file, or an error
NotThere(fullPath, exists) ==
  /\ last' = Call("Exists", fullPath, NoFile, exists)
  /\ response' = IF exists.err # NoErr THEN ErrorResponse(WrapError(500))
                 ELSE ErrorResponse(FileNotFoundError)
  /\ UNCHANGED <<disk, bucket>>

\* GetFileHandler from the existence check on
ServeFile(fullPath, exists) ==
  IF exists.err # NoErr \/ ~exists.found THEN NotThere(fullPath, exists)
  ELSE Answer("Get", fullPath, NoFile, Reading(StorageGet(fullPath)))

\* GetFileHandler
GetFileHandler(path) ==
  /\ IF path = <<>> THEN Refuse(400, "BAD_REQUEST")
     ELSE ServeFile(FullPath(path), StorageExists(FullPath(path)))
  /\ UNCHANGED <<config, kit, inferred, history, uploaders, handlerConfig>>

\* GetFileInfoHandler
GetFileInfoHandler(path) ==
  /\ IF path = <<>> THEN Refuse(400, "BAD_REQUEST")
     ELSE Answer("GetInfo", FullPath(path), NoFile, Reading(StorageGetInfo(FullPath(path))))
  /\ UNCHANGED <<config, kit, inferred, history, uploaders, handlerConfig>>

\* DeleteFileHandler from the existence check on
RemoveFile(fullPath, exists) ==
  IF exists.err # NoErr \/ ~exists.found THEN NotThere(fullPath, exists)
  ELSE Answer("Delete", fullPath, NoFile, StorageDelete(fullPath))

\* DeleteFileHandler
DeleteFileHandler(path) ==
  /\ IF path = <<>> THEN Refuse(400, "BAD_REQUEST")
     ELSE RemoveFile(FullPath(path), StorageExists(FullPath(path)))
  /\ UNCHANGED <<config, kit, inferred, history, uploaders, handlerConfig>>

\* ListFilesHandler
ListFilesHandler(path) ==
  /\ Answer("List", FullPath(path), NoFile, Reading(StorageList(FullPath(path))))
  /\ UNCHANGED <<config, kit, inferred, history, uploaders, handlerConfig>>

\* A request without a file part carries nothing else the handler reads; a
\* UUID is drawn only when the configuration asks for one.
NextHandler ==
  \/ UploadHandler(FALSE, <<>>, <<>>, NoFile, <<>>, 0)
  \/ \E filename \in Filenames, customPath \in paths \cup {<<>>},
        file \in { f \in Files : f.fault = "none" },
        id \in (IF handlerConfig.UseUUID THEN { u \in UUIDs : Fresh(u) } ELSE {<<>>}) :
       \E k \in Delivered(file) : UploadHandler(TRUE, filename, customPath, file, id, k)
  \/ \E path \in paths \cup {<<>>} : GetFileHandler(path)
  \/ \E path \in paths \cup {<<>>} : GetFileInfoHandler(path)
  \/ \E path \in paths \cup {<<>>} : DeleteFileHandler(path)
  \/ \E path \in paths \cup {<<>>} : ListFilesHandler(path)

SpecHandler == InitHandler /\ [][NextHandler]_vars

\* ------------------------------------------------- listing a store in use
\* The files a store may hold when it is listed: plain files of the root, a
\* directory d with files, and a directory d/d below it.
ListedFiles ==
  { <<"a">>, <<"b">>, <<"x">>, <<"d", "/", "a">>, <<"d", "/", "b">>,
    <<"d", "/", "d", "/", "a">> }

\* The paths that are listed: the root, the two directories and a plain file
ListedPaths == { <<>>, <<"/">>, <<"d">>, <<"d", "/", "d">>, <<"a">> }

\* The disk on which the files stored were uploaded with directory creation
\* on: every file, and every directory that leads to one.
DiskHolding(stored) ==
  LET full == { Join(basePath, f) : f \in stored }
      parents(q) == { PrefixPath(Elems(q), k) : k \in 0..(Len(Elems(q)) - 1) }
      dirs == UNION { parents(q) : q \in full } \cup DOMAIN RootDisk
  IN  [q \in dirs \cup full |-> IF q \in full THEN FileNode(<<1>>) ELSE DirNode]

\* The bucket to which the files stored were uploaded
BucketHolding(stored) == [k \in { getFullKey(f) : f \in stored } |-> Object(<<1>>)]

InitList ==
  /\ backend \in {"local", "s3"}
  /\ createDirectories = (backend = "local")
  /\ basePrefix \in (IF backend = "s3" THEN Prefixes ELSE {<<>>})
  /\ \E stored \in SUBSET ListedFiles :
       /\ disk = (IF backend = "local" THEN DiskHolding(stored) ELSE RootDisk)
       /\ bucket = (IF backend = "s3" THEN BucketHolding(stored) ELSE EmptyBucket)
  /\ paths = ListedPaths
  /\ last = NoCall
  /\ deleted = {}
  /\ untouched = {}
  /\ pc = [p \in Procs |-> "idle"]
  /\ call = [p \in Procs |-> NoCall]
  /\ handlerConfig = NoHandlers
  /\ response = NoResponse
  /\ inferred = [op |-> "none"]
  /\ ctx = "live"
  /\ built = [op |-> "none"]
  /\ pagination = [op |-> "none"]
  /\ logger = NewLogger
  /\ handles = NoHandles

NextList ==
  \/ \E path \in paths : List(path)
  \/ \E path \in paths : GetInfo(path)

SpecList == InitList /\ [][NextList]_vars

\* ------------------------------------------------------------ content types
\* LocalStorage.getContentType: the MIME type the local backend gives an
\* extension
getContentType(ext) ==
  LET e == ToLower(ext)
  IN  CASE e \in { <<".", "j", "p", "g">>, <<".", "j", "p", "e", "g">> } -> "image/jpeg"
        [] e = <<".", "p", "n", "g">> -> "image/png"
        [] e = <<".", "g", "i", "f">> -> "image/gif"
        [] e = <<".", "w", "e", "b", "p">> -> "image/webp"
        [] e = <<".", "s", "v", "g">> -> "image/svg+xml"
        [] e = <<".", "p", "d", "f">> -> "application/pdf"
        [] e = <<".", "d", "o", "c">> -> "application/msword"
        [] e = <<".", "d", "o", "c", "x">> -> "application/vnd.openxmlformats-officedocument.wordprocessingml.document"
        [] e = <<".", "x", "l", "s">> -> "application/vnd.ms-excel"
        [] e = <<".", "x", "l", "s", "x">> -> "application/vnd.openxmlformats-officedocument.spreadsheetml.sheet"
        [] e = <<".", "t", "x", "t">> -> "text/plain"
        [] e \in { <<".", "h", "t", "m", "l">>, <<".", "h", "t", "m">> } -> "text/html"
        [] e = <<".", "c", "s", "s">> -> "text/css"
        [] e = <<".", "j", "s">> -> "application/javascript"
        [] e = <<".", "j", "s", "o", "n">> -> "application/json"
        [] e = <<".", "x", "m", "l">> -> "application/xml"
        [] e = <<".", "z", "i", "p">> -> "application/zip"
        [] e = <<".", "t", "a", "r">> -> "application/x-tar"
        [] e \in { <<".", "g", "z">>, <<".", "g", "z", "i", "p">> } -> "application/gzip"
        [] e = <<".", "m", "p", "3">> -> "audio/mpeg"
        [] e = <<".", "m", "p", "4">> -> "video/mp4"
        [] e = <<".", "w", "a", "v">> -> "audio/wav"
        [] e = <<".", "a", "v", "i">> -> "video/x-msvideo"
        [] e = <<".", "m", "o", "v">> -> "video/quicktime"
        [] e = <<".", "w", "e", "b", "m">> -> "video/webm"
        [] OTHER -> "application/octet-stream"

\* A lookup that does not fold the case of the extension. Variant of
\* getContentTypeByExt, against which C16 is shown to depend on the letter
\* case being ignored by both backends.
getContentTypeByExtExact(ext) ==
  IF ext = ToLower(ext) THEN getContentType(ext) ELSE "application/octet-stream"

\* getContentTypeByExt: the MIME type the S3 backend gives an extension
getContentTypeByExt(ext) ==
  LET e == ToLower(ext)
  IN  CASE e \in { <<".", "j", "p", "g">>, <<".", "j", "p", "e", "g">> } -> "image/jpeg"
        [] e = <<".", "p", "n", "g">> -> "image/png"
        [] e = <<".", "g", "i", "f">> -> "image/gif"
        [] e = <<".", "w", "e", "b", "p">> -> "image/webp"
        [] e = <<".", "s", "v", "g">> -> "image/svg+xml"
        [] e = <<".", "p", "d", "f">> -> "application/pdf"
        [] e = <<".", "d", "o", "c">> -> "application/msword"
        [] e = <<".", "d", "o", "c", "x">> -> "application/vnd.openxmlformats-officedocument.wordprocessingml.document"
        [] e = <<".", "x", "l", "s">> -> "application/vnd.ms-excel"
        [] e = <<".", "x", "l", "s", "x">> -> "application/vnd.openxmlformats-officedocument.spreadsheetml.sheet"
        [] e = <<".", "t", "x", "t">> -> "text/plain"
        [] e \in { <<".", "h", "t", "m", "l">>, <<".", "h", "t", "m">> } -> "text/html"
        [] e = <<".", "c", "s", "s">> -> "text/css"
        [] e = <<".", "j", "s">> -> "application/javascript"
        [] e = <<".", "j", "s", "o", "n">> -> "application/json"
        [] e = <<".", "x", "m", "l">> -> "application/xml"
        [] e = <<".", "z", "i", "p">> -> "application/zip"
        [] e = <<".", "t", "a", "r">> -> "application/x-tar"
        [] e \in { <<".", "g", "z">>, <<".", "g", "z", "i", "p">> } -> "application/gzip"
        [] e = <<".", "m", "p", "3">> -> "audio/mpeg"
        [] e = <<".", "m", "p", "4">> -> "video/mp4"
        [] e = <<".", "w", "a", "v">> -> "audio/wav"
        [] e = <<".", "a", "v", "i">> -> "video/x-msvideo"
        [] e = <<".", "m", "o", "v">> -> "video/quicktime"
        [] e = <<".", "w", "e", "b", "m">> -> "video/webm"
        [] OTHER -> "application/octet-stream"

\* The extensions a content type is asked for: those of the tables and some
\* outside them, in lower case, with the first letter or with every letter in
\* upper case.
Extensions ==
  LET known ==
        { <<".", "j", "p", "g">>, <<".", "j", "p", "e", "g">>, <<".", "p", "n", "g">>,
          <<".", "g", "i", "f">>, <<".", "w", "e", "b", "p">>, <<".", "s", "v", "g">>,
          <<".", "p", "d", "f">>, <<".", "d", "o", "c">>, <<".", "d", "o", "c", "x">>,
          <<".", "x", "l", "s">>, <<".", "x", "l", "s", "x">>, <<".", "t", "x", "t">>,
          <<".", "h", "t", "m", "l">>, <<".", "h", "t", "m">>, <<".", "c", "s", "s">>,
          <<".", "j", "s">>, <<".", "j", "s", "o", "n">>, <<".", "x", "m", "l">>,
          <<".", "z", "i", "p">>, <<".", "t", "a", "r">>, <<".", "g", "z">>,
          <<".", "g", "z", "i", "p">>, <<".", "m", "p", "3">>, <<".", "m", "p", "4">>,
          <<".", "w", "a", "v">>, <<".", "a", "v", "i">>, <<".", "m", "o", "v">>,
          <<".", "w", "e", "b", "m">> }
      unknown ==
        { <<>>, <<".">>, <<".", "p", "d">>, <<"p", "d", "f">>, <<".", "p", "d", "f", "x">>,
          <<".", "z", "z">> }
      upper(c) == IF \E n \in 1..Len(Letters) : Letters[n][1] = c
                  THEN Letters[CHOOSE n \in 1..Len(Letters) : Letters[n][1] = c][2]
                  ELSE c
      cased(e, k) == [i \in 1..Len(e) |-> IF i <= k THEN upper(e[i]) ELSE e[i]]
  IN  { cased(e, k) : e \in known \cup unknown, k \in {0, 2, 5} }

\* http.DetectContentType, on contents that are empty, begin with the
\* signature of a PDF or a GIF file, are text, or hold a byte that text does
\* not ("NUL"): the type of the signature, "text/plain; charset=utf-8" for
\* text and for no content, and the generic type for the rest.
DetectContentType(data) ==
  IF HasPrefix(data, <<"%", "P", "D", "F", "-">>) THEN "application/pdf"
  ELSE IF HasPrefix(data, <<"G", "I", "F", "8", "9", "a">>) THEN "image/gif"
  ELSE IF \E i \in 1..Len(data) : data[i] = "NUL" THEN "application/octet-stream"
  ELSE "text/plain; charset=utf-8"

\* The multipart files whose type is taken: the name the caller gave the
\* file, the Content-Type header of its part (none, or a type the caller
\* chose) and the content.
TypedFiles ==
  [ Filename : { <<"a">>, <<"a", ".", "p", "d", "f">>, <<"a", ".", "J", "S", "O", "N">>,
                 <<"a", ".", "z", "z">> },
    Header : { <<>>, <<"application/x-custom">>, <<"image/png">> },
    content : { <<>>, <<"%", "P", "D", "F", "-", "1">>, <<"G", "I", "F", "8", "9", "a">>,
                <<"{", "}">>, <<"NUL", "a">> } ]

\* An upload that takes the type the caller declared in the part's header,
\* when there is one. Variant of S3UploadContentType, against which C17 is
\* shown to depend on the header being left aside.
S3UploadContentTypeOfHeader(file) ==
  IF file.Header # <<>> THEN file.Header[1]
  ELSE IF DetectContentType(file.content) = "application/octet-stream"
  THEN getContentTypeByExt(Ext(file.Filename))
  ELSE DetectContentType(file.content)

\* S3Storage.Upload, the content type it stores with the object and returns:
\* strings.HasPrefix(contentType, "application/octet-stream") holds of the
\* generic type alone among the types DetectContentType returns.
S3UploadContentType(file) ==
  IF DetectContentType(file.content) = "application/octet-stream"
  THEN getContentTypeByExt(Ext(file.Filename))
  ELSE DetectContentType(file.content)

\* Both backends are asked the type of an extension
InferType(ext) ==
  /\ inferred' = [op |-> "getContentType", ext |-> ext,
                  local |-> getContentType(ext), s3 |-> getContentTypeByExt(ext)]
  /\ UNCHANGED <<config, kit, disk, bucket, last, history, uploaders, http>>

\* The S3 backend types the file of an upload
UploadType(file) ==
  /\ inferred' = [op |-> "Upload", file |-> file, ContentType |-> S3UploadContentType(file)]
  /\ UNCHANGED <<config, kit, disk, bucket, last, history, uploaders, http>>

NextType ==
  \/ \E ext \in Extensions : InferType(ext)
  \/ \E file \in TypedFiles : UploadType(file)

SpecType == Init /\ [][NextType]_vars

\* The destinations of the uploads whose type is followed through the
\* operations: without an extension, with one, and inside a directory.
Destinations ==
  { <<"x">>, <<"x", ".", "p", "n", "g">>, <<"d", "/", "x", ".", "p", "d", "f">> }

\* The content types the S3 backend reports of one object, stored holding the
\* ContentType PutObject was given: Upload returns that type; Get takes it
\* from GetObject and GetInfo from HeadObject, each with a fallback when the
\* object has none; List derives it from the extension of the key.
TypesReported(file, path, stored) ==
  [op      |-> "Stored", file |-> file, path |-> path,
   Upload  |-> S3UploadContentType(file),
   Get     |-> IF stored # <<>> THEN stored[1] ELSE "application/octet-stream",
   GetInfo |-> IF stored # <<>> THEN stored[1] ELSE getContentTypeByExt(Ext(path)),
   List    |-> getContentTypeByExt(Ext(Base(getFullKey(path))))]

\* The S3 backend stores a file and is asked its type in each way
StoredType(file, path) ==
  /\ backend = "s3"
  /\ inferred' = TypesReported(file, path, <<S3UploadContentType(file)>>)
  /\ UNCHANGED <<config, kit, disk, bucket, last, history, uploaders, http>>

NextStored == \E file \in TypedFiles, path \in Destinations : StoredType(file, path)

SpecStored == Init /\ [][NextStored]_vars

\* ---------------------------------------------------- two concurrent deleters
\* Delete is not atomic either: between its existence check and the removal
\* the other deleter may take steps.
StoredAtFirst == { <<"a">>, <<"d", "/", "a">> }

InitDel ==
  /\ backend \in {"local", "s3"}
  /\ createDirectories = FALSE
  /\ basePrefix \in (IF backend = "s3" THEN Prefixes ELSE {<<>>})
  /\ \E stored \in SUBSET StoredAtFirst :
       /\ disk = (IF backend = "local" THEN DiskHolding(stored) ELSE RootDisk)
       /\ bucket = (IF backend = "s3" THEN BucketHolding(stored) ELSE EmptyBucket)
  /\ paths = StoredAtFirst \cup { <<"d">> }
  /\ last = NoCall
  /\ deleted = {}
  /\ untouched = {}
  /\ pc = [p \in Procs |-> "idle"]
  /\ call = [p \in Procs |-> NoCall]
  /\ handlerConfig = NoHandlers
  /\ response = NoResponse
  /\ inferred = [op |-> "none"]
  /\ ctx = "live"
  /\ built = [op |-> "none"]
  /\ pagination = [op |-> "none"]
  /\ logger = NewLogger
  /\ handles = NoHandles

\* Delete up to its removal step: os.Stat and the directory test (local), or
\* Exists (S3).  ok means the delete goes on to remove.
DeleteChecked(res) == [ok |-> res.err = NoErr, err |-> res.err]

LocalDeleteCheck(d, path) ==
  DeleteChecked(IF Stat(d, Join(basePath, path)).errno = "OK"
                   /\ ~Stat(d, Join(basePath, path)).isDir
                THEN Failure(NoErr) ELSE LocalDelete(d, path).res)

S3DeleteCheck(b, path) ==
  DeleteChecked(IF S3Exists(b, path).found
                THEN Failure(NoErr) ELSE S3Delete(b, path).res)

\* os.Remove and return: removing a name that is no longer there fails, as
\* does removing a directory that is not empty.
LocalDeleteRemove(d, path) ==
  IF \/ Join(basePath, path) \notin DOMAIN d
     \/ \E q \in DOMAIN d : q # Join(basePath, path) /\ Dir(q) = Join(basePath, path)
  THEN [disk |-> d, res |-> Failure(WrapError(500))]
  ELSE [disk |-> Remove(d, Join(basePath, path)), res |-> Failure(NoErr)]

\* client.DeleteObject and return: deleting a key that is not in the bucket
\* succeeds.
S3DeleteRemove(b, path) ==
  IF ctx = "cancelled" THEN [bucket |-> b, res |-> Failure(WrapError(500))]
  ELSE [bucket |-> DeleteObject(b, getFullKey(path)), res |-> Failure(NoErr)]

\* Provider.Delete is called
BeginDelete(p, path) ==
  /\ pc[p] = "idle"
  /\ pc' = [pc EXCEPT ![p] = "stat"]
  /\ call' = [call EXCEPT ![p] = Call("Delete", path, NoFile, Failure(NoErr))]
  /\ UNCHANGED <<config, kit, inferred, disk, bucket, last, history, http>>

CheckPresent(p) ==
  /\ pc[p] = "stat"
  /\ Proceed(p, IF backend = "local" THEN LocalDeleteCheck(disk, call[p].path)
                ELSE S3DeleteCheck(bucket, call[p].path), "remove")
  /\ UNCHANGED <<config, kit, inferred, disk, bucket, last, history, http>>

\* deleted gains the location when the removal succeeds
RemoveStored(p) ==
  /\ pc[p] = "remove"
  /\ Finish(p, IF backend = "local"
               THEN OnDisk(LocalDeleteRemove(disk, call[p].path))
               ELSE InBucket(S3DeleteRemove(bucket, call[p].path)))
  /\ deleted' = IF call'[p].res.err = NoErr
                THEN deleted \cup {Location(call[p].path)} ELSE deleted
  /\ UNCHANGED <<config, kit, inferred, last, untouched, http>>

NextDel ==
  \/ \E p \in Procs, path \in paths : BeginDelete(p, path)
  \/ \E p \in Procs : CheckPresent(p)
  \/ \E p \in Procs : RemoveStored(p)

SpecDel == InitDel /\ [][NextDel]_vars

\* ------------------------------------------------- building a provider
\* The configurations a provider is built from: each field empty or set, the
\* two numbers negative, zero or positive.
Configs ==
  [ StorageType : {"local", "s3", "", "ftp"},
    S3Bucket : {"", "b"},
    S3Endpoint : {"", "e"},
    S3AccessKey : {"", "k"},
    S3SecretKey : {"", "s"},
    UploadMaxSizeMB : {-1, 0, 1},
    TimeoutSecs : {0, 30} ]

\* Config.Validate: the problems of the configuration, in the order found
Validate(c) ==
  (IF c.StorageType # "local" /\ c.StorageType # "s3" THEN <<"storage type">> ELSE <<>>)
  \o (IF c.StorageType = "s3" /\ c.S3Bucket = "" THEN <<"bucket">> ELSE <<>>)
  \o (IF c.StorageType = "s3" /\ c.S3Endpoint # "" /\ c.S3AccessKey = ""
      THEN <<"access key">> ELSE <<>>)
  \o (IF c.StorageType = "s3" /\ c.S3Endpoint # "" /\ c.S3SecretKey = ""
      THEN <<"secret key">> ELSE <<>>)
  \o (IF c.UploadMaxSizeMB <= 0 THEN <<"upload max size">> ELSE <<>>)
  \o (IF c.TimeoutSecs <= 0 THEN <<"timeout">> ELSE <<>>)

\* What a constructor returns and does: the error, the problems it carries,
\* the provider (absent, or the storage type it holds), the disk afterwards,
\* and whether the S3 service was contacted.
Built(err, details, provider, d, contacted) ==
  [err |-> err, details |-> details, provider |-> provider, disk |-> d,
   contacted |-> contacted]

\* A constructor that builds the storage first and validates afterwards.
\* Variant of NewStorageProvider, against which C21 is shown to depend on the
\* validation coming first.
NewStorageProviderLate(c, env, d) ==
  IF c.StorageType = "s3"
  THEN Built(WrapError(IF Validate(c) # <<>> THEN 400 ELSE 500), Validate(c), <<>>, d, TRUE)
  ELSE IF Validate(c) # <<>>
  THEN Built(WrapError(400), Validate(c), <<>>, MkdirAll(d, basePath).disk, FALSE)
  ELSE Built(NoErr, <<>>, <<"local">>, MkdirAll(d, basePath).disk, FALSE)

\* NewStorageProvider, with NewS3Storage and NewLocalStorage: env says
\* whether the AWS configuration loads ("noaws" when not) and whether
\* HeadBucket reaches the bucket ("nobucket" when not).
NewStorageProvider(c, env, d) ==
  IF Validate(c) # <<>> THEN Built(WrapError(400), Validate(c), <<>>, d, FALSE)
  ELSE IF c.StorageType = "s3"
  THEN IF c.S3Endpoint = "" /\ env = "noaws" THEN Built(WrapError(500), <<>>, <<>>, d, FALSE)
       ELSE IF env = "nobucket" THEN Built(WrapError(500), <<>>, <<>>, d, TRUE)
       ELSE Built(NoErr, <<>>, <<"s3">>, d, TRUE)
  ELSE IF ~MkdirAll(d, basePath).ok THEN Built(WrapError(500), <<>>, <<>>, d, FALSE)
  ELSE Built(NoErr, <<>>, <<"local">>, MkdirAll(d, basePath).disk, FALSE)

\* NewFilesystemProviderWithConfig: validates, then NewStorageProvider
NewFilesystemProviderWithConfig(c, env, d) ==
  IF Validate(c) # <<>> THEN Built(WrapError(400), Validate(c), <<>>, d, FALSE)
  ELSE NewStorageProvider(c, env, d)

\* A constructor, called once when the program starts, returned r
Constructed(by, c, r) ==
  /\ built.op = "none"
  /\ built' = [op |-> by, config |-> c, err |-> r.err, details |-> r.details,
               provider |-> r.provider, contacted |-> r.contacted]
  /\ disk' = r.disk
  /\ UNCHANGED <<config, bucket, last, history, uploaders, http, inferred, pagination, logger,
                 handles>>

\* Before a provider is built: the disk holds the root directory alone, or
\* also a regular file where the base directory is to be
InitKit ==
  /\ backend = "local"
  /\ createDirectories = FALSE
  /\ basePrefix = <<>>
  /\ bucket = EmptyBucket
  /\ last = NoCall
  /\ deleted = {}
  /\ untouched = {}
  /\ inferred = [op |-> "none"]
  /\ ctx = "live"
  /\ built = [op |-> "none"]
  /\ pagination = [op |-> "none"]
  /\ logger = NewLogger
  /\ handles = NoHandles
  /\ disk \in { [q \in {<<Slash>>} |-> DirNode],
                 [q \in {<<Slash>>, basePath} |-> IF q = basePath THEN FileNode(<<>>) ELSE DirNode] }
  /\ paths = {}
  /\ pc = [p \in Procs |-> "idle"]
  /\ call = [p \in Procs |-> NoCall]
  /\ handlerConfig = NoHandlers
  /\ response = NoResponse

NextConfig ==
  \/ \E c \in Configs, env \in {"ok", "noaws", "nobucket"} :
       Constructed("NewStorageProvider", c, NewStorageProvider(c, env, disk))
  \/ \E c \in Configs, env \in {"ok", "noaws", "nobucket"} :
       Constructed("NewFilesystemProviderWithConfig", c,
                   NewFilesystemProviderWithConfig(c, env, disk))

SpecConfig == InitKit /\ [][NextConfig]_vars

\* ------------------------------------------------------------- pagination
\* Go's int and int64 are IntBits wide and a float64 carries MantBits
\* significant binary digits.  Numbers of that size are held as sequences of
\* binary digits, least significant first and without leading zeros; a signed
\* number is a record of a sign and a magnitude.
IntBits == 64

MantBits == 53

RECURSIVE Bits(_)
Bits(n) == IF n = 0 THEN <<>> ELSE <<n % 2>> \o Bits(n \div 2)

Pow2(k) == [i \in 1..(k + 1) |-> IF i = k + 1 THEN 1 ELSE 0]

Trim(a) ==
  IF \A i \in 1..Len(a) : a[i] = 0 THEN <<>>
  ELSE SubSeq(a, 1, CHOOSE i \in 1..Len(a) :
                      a[i] = 1 /\ \A j \in (i + 1)..Len(a) : a[j] = 0)

Bit(a, i) == IF i >= 1 /\ i <= Len(a) THEN a[i] ELSE 0

Rest(a) == IF a = <<>> THEN <<>> ELSE Tail(a)

Shl(a, k) == IF a = <<>> THEN <<>> ELSE [i \in 1..k |-> 0] \o a

\* Arithmetic goes through digits of base LimbBase, least significant first.
\* The product of two digits has to stay within the 31 bits of the model
\* checker's integers, so a digit holds half of 30 bits.
LimbBits == 30 \div 2

LimbBase == 2^LimbBits

RECURSIVE LimbAt(_, _, _)
LimbAt(a, j, k) ==
  IF k = LimbBits THEN 0
  ELSE Bit(a, LimbBits * (j - 1) + k + 1) + 2 * LimbAt(a, j, k + 1)

Limbs(a) == [j \in 1..((Len(a) + LimbBits - 1) \div LimbBits) |-> LimbAt(a, j, 0)]

BitsOf(x) ==
  Trim([i \in 1..(LimbBits * Len(x)) |->
          (x[(i - 1) \div LimbBits + 1] \div 2^((i - 1) % LimbBits)) % 2])

Limb(x, j) == IF j <= Len(x) THEN x[j] ELSE 0

RECURSIVE LAdd(_, _, _)
LAdd(x, y, c) ==
  IF x = <<>> /\ y = <<>>
  THEN IF c = 0 THEN <<>> ELSE <<c>>
  ELSE <<(Limb(x, 1) + Limb(y, 1) + c) % LimbBase>>
       \o LAdd(Rest(x), Rest(y), (Limb(x, 1) + Limb(y, 1) + c) \div LimbBase)

RECURSIVE LSub(_, _, _)
LSub(x, y, c) ==
  IF x = <<>> THEN <<>>
  ELSE <<(LimbBase + x[1] - Limb(y, 1) - c) % LimbBase>>
       \o LSub(Tail(x), Rest(y), IF x[1] - Limb(y, 1) - c < 0 THEN 1 ELSE 0)

RECURSIVE LScale(_, _, _)
LScale(x, d, c) ==
  IF x = <<>>
  THEN IF c = 0 THEN <<>> ELSE <<c>>
  ELSE <<(x[1] * d + c) % LimbBase>>
       \o LScale(Tail(x), d, (x[1] * d + c) \div LimbBase)

RECURSIVE LMul(_, _)
LMul(x, y) ==
  IF x = <<>> THEN <<>>
  ELSE LAdd(LScale(y, x[1], 0), <<0>> \o LMul(Tail(x), y), 0)

NatAdd(a, b) == BitsOf(LAdd(Limbs(a), Limbs(b), 0))

\* a - b for a >= b.
NatSub(a, b) == BitsOf(LSub(Limbs(a), Limbs(b), 0))

NatMul(a, b) == BitsOf(LMul(Limbs(a), Limbs(b)))

NatLess(a, b) ==
  \/ Len(a) < Len(b)
  \/ /\ Len(a) = Len(b)
     /\ \E i \in 1..Len(a) :
          /\ a[i] < b[i]
          /\ \A j \in (i + 1)..Len(a) : a[j] = b[j]

\* The largest digit d in lo..hi with d x b <= r.
RECURSIVE Digit(_, _, _, _)
Digit(lo, hi, r, b) ==
  IF lo = hi THEN lo
  ELSE IF ~NatLess(r, NatMul(Bits((lo + hi + 1) \div 2), b))
  THEN Digit((lo + hi + 1) \div 2, hi, r, b)
  ELSE Digit(lo, (lo + hi + 1) \div 2 - 1, r, b)

\* One digit of long division: the quotient so far, and the remainder so far
\* followed by the next digit of the dividend.
DivDigit(q, r, b, d) == [q |-> <<d>> \o q, r |-> NatSub(r, NatMul(Bits(d), b))]

DivStep(q, r, b) == DivDigit(q, r, b, Digit(0, LimbBase - 1, r, b))

DivNext(d, limb, b) == DivStep(d.q, NatAdd(Shl(d.r, LimbBits), Bits(limb)), b)

RECURSIVE LDivMod(_, _)
LDivMod(x, b) ==
  IF x = <<>> THEN [q |-> <<>>, r |-> <<>>]
  ELSE DivNext(LDivMod(Tail(x), b), x[1], b)

QuotRem(d) == [q |-> BitsOf(d.q), r |-> d.r]

\* Quotient and remainder of a by b, b > 0.
NatDivMod(a, b) == QuotRem(LDivMod(Limbs(a), b))

Signed(n) == [neg |-> n < 0, mag |-> Bits(IF n < 0 THEN 0 - n ELSE n)]

\* The result of Go's integer arithmetic on the exact result a >= 0: the low
\* IntBits digits, read as a two's complement number.
Int64(a) ==
  IF Bit(a, IntBits) = 1
  THEN [neg |-> TRUE,
        mag |-> NatSub(Pow2(IntBits), Trim(SubSeq(a, 1, IntBits)))]
  ELSE [neg |-> FALSE,
        mag |-> Trim(SubSeq(a, 1, IF Len(a) < IntBits THEN Len(a) ELSE IntBits))]

\* a, followed by digits that are not all zero exactly when sticky holds,
\* rounded to the nearest number of MantBits significant digits, a tie going
\* to the even one.
Round(a, sticky) ==
  IF Len(a) <= MantBits THEN a
  ELSE Shl(NatAdd(SubSeq(a, Len(a) - MantBits + 1, Len(a)),
                  IF /\ a[Len(a) - MantBits] = 1
                     /\ \/ sticky
                        \/ a[Len(a) - MantBits + 1] = 1
                        \/ \E i \in 1..(Len(a) - MantBits - 1) : a[i] = 1
                  THEN <<1>> ELSE <<>>),
           Len(a) - MantBits)

\* float64(a) of an integer a >= 0.
Float64(a) == Round(a, FALSE)

\* math.Ceil of the float64 quotient of the float64 values a and b, given the
\* integer quotient q and remainder r of a by b.  A quotient of more than
\* MantBits digits is rounded to a whole number; a shorter one lies between q
\* and q + 1 and is rounded down to q only when r / b is at most half a unit
\* in the last place of q.
CeilOfQuotient(q, r, b) ==
  IF r = <<>> THEN q
  ELSE IF Len(q) > MantBits THEN Round(q, TRUE)
  ELSE IF q = <<>> THEN <<1>>
  ELSE IF \/ NatLess(Shl(r, MantBits + 1 - Len(q)), b)
          \/ /\ Shl(r, MantBits + 1 - Len(q)) = b
             /\ (Len(q) < MantBits \/ q[1] = 0)
  THEN q
  ELSE NatAdd(q, <<1>>)

CeilOfDivMod(d, b) == CeilOfQuotient(d.q, d.r, b)

\* int(math.Ceil(float64(total) / float64(size))) for total >= 0, size > 0.
totalPages(total, size) ==
  Int64(CeilOfDivMod(NatDivMod(Float64(total), Float64(size)), Float64(size)))

\* What Paginate asks of the database and returns, page and size being the
\* effective parameters.
Paged(page, size, total, db) ==
  IF db = "count fails" THEN [err |-> "count"]
  ELSE IF db = "find fails" THEN [err |-> "find"]
  ELSE [err    |-> "nil",
        limit  |-> size,
        offset |-> Int64(NatMul(NatSub(page.mag, <<1>>), size.mag)),
        meta   |-> [Total |-> total, Page |-> page, PageSize |-> size,
                    TotalPages |-> totalPages(total, size.mag)]]

IsPositive(n) == ~n.neg /\ n.mag # <<>>

Paginate(params, total, db) ==
  /\ pagination.op = "none"
  /\ pagination' =
       [op |-> "Paginate", params |-> params, total |-> total,
        res |-> Paged(IF IsPositive(params.Page) THEN params.Page ELSE Signed(1),
                      IF IsPositive(params.PageSize) THEN params.PageSize
                      ELSE Signed(10),
                      total, db)]
  /\ UNCHANGED <<config, disk, bucket, last, history, uploaders, http,
                 inferred, built, logger, handles>>

\* The requests and tables Paginate is tried on: pages and sizes around zero
\* and pages and totals near the ends of their types.
Pages ==
  {Signed(0 - 1), Signed(0), Signed(1), Signed(2), Signed(3),
   [neg |-> FALSE, mag |-> NatAdd(Pow2(IntBits - 2), <<1>>)]}

PageSizes == {Signed(0 - 5), Signed(0), Signed(1), Signed(3), Signed(4), Signed(10)}

Totals ==
  {<<>>, Bits(1), Bits(9), Bits(10), Bits(11),
   NatAdd(Pow2(MantBits), <<1>>)}

NextPage ==
  \E p \in Pages, s \in PageSizes, t \in Totals,
     db \in {"ok", "count fails", "find fails"} :
    Paginate([Page |-> p, PageSize |-> s], t, db)

SpecPage == InitKit /\ [][NextPage]_vars

\* ------------------------------------------------------- calls on the logger
\* LogLevel.String, the levels between DEBUG and FATAL being INFO, WARN and
\* ERROR.
String(l) ==
  IF l \in DEBUG..FATAL
  THEN <<"DEBUG", "INFO", "WARN", "ERROR", "FATAL">>[l - DEBUG + 1]
  ELSE "UNKNOWN"

\* A line of the output is the name of the level it was written at, or
\* "ERROR MARSHALING JSON" for the line logJSON writes when its object cannot
\* be marshalled.  After os.Exit nothing more is called.
Called(op, arg, level, output, exited) ==
  /\ ~logger.exited
  /\ logger' = [logLevel |-> level, output |-> output, exited |-> exited,
                call |-> [op |-> op, arg |-> arg]]
  /\ UNCHANGED <<config, disk, bucket, last, history, uploaders, http,
                 inferred, built, pagination, handles>>

SetLevel(v) ==
  Called("SetLevel", v, IF v <= FATAL THEN v ELSE logger.logLevel,
         logger.output, FALSE)

\* A log that writes whatever the level of the logger, against which C25 is
\* shown to depend on the filter.
logUnfiltered(level) ==
  /\ Len(logger.output) < MaxLines
  /\ Called("log", level, logger.logLevel, Append(logger.output, String(level)),
            level = FATAL)

log(level) ==
  /\ Len(logger.output) < MaxLines
  /\ IF level < logger.logLevel
     THEN Called("log", level, logger.logLevel, logger.output, FALSE)
     ELSE Called("log", level, logger.logLevel, Append(logger.output, String(level)),
                 level = FATAL)

logJSON(level, marshals) ==
  /\ Len(logger.output) < MaxLines
  /\ IF level < logger.logLevel
     THEN Called("logJSON", level, logger.logLevel, logger.output, FALSE)
     ELSE IF ~marshals
     THEN Called("logJSON", level, logger.logLevel,
                 Append(logger.output, "ERROR MARSHALING JSON"), FALSE)
     ELSE Called("logJSON", level, logger.logLevel,
                 Append(logger.output, String(level)), level = FATAL)

\* SetLevel takes a uint8; Logf passes any LogLevel on to log; the JSON
\* methods log at DEBUG..FATAL.
NextLog ==
  \/ \E v \in (DEBUG..(FATAL + 2)) \cup {255} : SetLevel(v)
  \/ \E level \in (DEBUG - 1)..(FATAL + 1) : log(level)
  \/ \E level \in DEBUG..FATAL, marshals \in BOOLEAN : logJSON(level, marshals)

SpecLog == InitKit /\ [][NextLog]_vars

\* ------------------------------------------------- streams and file handles
\* The handles of Upload.  Local: nothing is opened when the directory policy
\* or the existence check ends the call or file.Open fails; src is open when
\* os.Create fails; src and dst are open from then on.  S3: src is open once
\* file.Open succeeded.  Each is closed by the defer that follows its opening.
\* The variant forgets the defer of dst; against it C29 is shown to depend on
\* the destination being closed.
UploadHandlesNoDefer(path, file, err) ==
  IF file.fault = "open" THEN Ledger("Upload", {}, {}, {}, err)
  ELSE IF backend # "local" THEN Ledger("Upload", {"src"}, {"src"}, {}, err)
  ELSE IF ~LocalUploadCheck(disk, path).ok THEN Ledger("Upload", {}, {}, {}, err)
  ELSE IF ~LocalUploadCreate(LocalUploadCheck(disk, path).disk, file, path).ok
  THEN Ledger("Upload", {"src"}, {"src"}, {}, err)
  ELSE Ledger("Upload", {"src", "dst"}, {"src"}, {}, err)

UploadHandles(path, file, err) ==
  IF file.fault = "open" THEN Ledger("Upload", {}, {}, {}, err)
  ELSE IF backend # "local" THEN Ledger("Upload", {"src"}, {"src"}, {}, err)
  ELSE IF ~LocalUploadCheck(disk, path).ok THEN Ledger("Upload", {}, {}, {}, err)
  ELSE IF ~LocalUploadCreate(LocalUploadCheck(disk, path).disk, file, path).ok
  THEN Ledger("Upload", {"src"}, {"src"}, {}, err)
  ELSE Ledger("Upload", {"src", "dst"}, {"src", "dst"}, {}, err)

\* Get when os.Open (local) or GetObject (S3) may fail: fault "open" makes it
\* fail once the checks before it have passed.
GetOpening(path, fault) ==
  IF fault = "open" /\ StorageGet(path).err = NoErr
  THEN Failure(WrapError(500)) ELSE StorageGet(path)

\* The handles of Get, res being its result: the file or the response body is
\* opened last, and returned as it is.
GetHandles(res) ==
  IF res.err # NoErr THEN Ledger("Get", {}, {}, {}, res.err)
  ELSE Ledger("Get", {"file"}, {}, {"file"}, NoErr)

\* The handles of GetFileHandler, g being those of its Get: the stream Get
\* returned is closed by the defer.
ServeHandles(g) ==
  Ledger("GetFileHandler", g.opened, g.closed \cup g.returned, {}, g.err)

\* Provider.Upload, with its handles; a source that fails in Read has
\* delivered k bytes
UploadOpening(path, file, k) ==
  /\ Returned("Upload", path, file, StorageUpload(file, path, k))
  /\ handles' = UploadHandles(path, file, last'.res.err)
  /\ UNCHANGED <<config, built, pagination, logger, inferred, history, uploaders, http>>

\* Provider.Get, with its handles
GetReturning(path, fault) ==
  /\ Returned("Get", path, NoFile, Reading(GetOpening(path, fault)))
  /\ handles' = GetHandles(last'.res)
  /\ UNCHANGED <<config, built, pagination, logger, inferred, history, uploaders, http>>

\* GetFileHandler, with its handles
ServeClosing(path, fault) ==
  /\ IF path = <<>>
     THEN Refuse(400, "BAD_REQUEST") /\ handles' = ServeHandles(NoHandles)
     ELSE IF StorageExists(FullPath(path)).err # NoErr \/ ~StorageExists(FullPath(path)).found
     THEN /\ NotThere(FullPath(path), StorageExists(FullPath(path)))
          /\ handles' = ServeHandles(NoHandles)
     ELSE /\ Answer("Get", FullPath(path), NoFile, Reading(GetOpening(FullPath(path), fault)))
          /\ handles' = ServeHandles(GetHandles(last'.res))
  /\ UNCHANGED <<config, built, pagination, logger, inferred, history, uploaders, handlerConfig>>

NextHandles ==
  \/ \E path \in paths, file \in Files : UploadOpening(path, file, 0)
  \/ \E path \in paths, fault \in {"none", "open"} : GetReturning(path, fault)
  \/ \E path \in paths \cup {<<>>}, fault \in {"none", "open"} : ServeClosing(path, fault)

\* The runs with a path below a plain file and with a path in a directory
InitHandles ==
  /\ Init
  /\ paths \in { { <<"a">>, <<"a", "/", "b">> }, { <<"d">>, <<"d", "/", "a">> } }

SpecHandles == InitHandles /\ [][NextHandles]_vars

\* ============================================================== properties
\* What a logical path denotes on the media (d, b); used to state the claims.
HoldsContentIn(d, b, path) ==
  IF backend = "local"
  THEN Location(path) \in DOMAIN d /\ ~d[Location(path)].isDir
  ELSE Location(path) \in DOMAIN b

StoredContentIn(d, b, path) ==
  IF backend = "local" THEN d[Location(path)].data ELSE b[Location(path)].data

\* A directory: on disk a directory node; in the bucket a key that is no
\* object but has objects below it
DirectoryAtIn(d, b, path) ==
  IF backend = "local"
  THEN Location(path) \in DOMAIN d /\ d[Location(path)].isDir
  ELSE /\ Location(path) \notin DOMAIN b
       /\ \E key \in DOMAIN b : IsBeneath(key, Location(path))

NothingAtIn(d, b, path) ==
  IF backend = "local"
  THEN Location(path) \notin DOMAIN d
  ELSE /\ Location(path) \notin DOMAIN b
       /\ ~\E key \in DOMAIN b : IsBeneath(key, Location(path))

C2_RoundTrip ==
  (last.op = "Upload" /\ last.res.err = NoErr)
  => StorageGet(last.path)
       = Result(NoErr, FALSE, <<last.file.content>>,
                <<FileInfo(Base(last.path), Len(last.file.content), FALSE)>>, <<>>)

\* C2 witness: a non-empty upload below a directory succeeded and Get
\* streams it back.
C2_Witness ==
  /\ last.op = "Upload"
  /\ last.res.err = NoErr
  /\ last.file.content # <<>>
  /\ Base(last.path) # last.path
  /\ StorageGet(last.path).stream = <<last.file.content>>

C4_WriteAfterCheckReplaces ==
  [][ \A p \in Procs :
        /\ ( /\ pc[p] \in {"create", "put"}
             /\ pc'[p] # pc[p]
             /\ call[p].file.fault = "none"
             /\ HoldsContentIn(disk, bucket, call[p].path) )
           => /\ pc'[p] = (IF backend = "local" THEN "copy" ELSE "done")
              /\ call'[p].res.err = NoErr
              /\ HoldsContentIn(disk', bucket', call[p].path)
              /\ StoredContentIn(disk', bucket', call[p].path)
                   = (IF backend = "local" THEN <<>> ELSE call[p].file.content)
        /\ ( /\ pc[p] = "copy"
             /\ pc'[p] # pc[p]
             /\ call[p].file.fault = "none" )
           => /\ call'[p].res.err = NoErr
              /\ StoredContentIn(disk', bucket', call[p].path)
                   = WriteAt0(StoredContentIn(disk, bucket, call[p].path),
                              call[p].file.content) ]_vars

\* C4 witness: both uploaders returned success for the same destination with
\* different contents, and the destination holds the content of one of them:
\* what the other wrote is gone.
C4_Witness ==
  \E p \in Procs, q \in Procs :
    /\ p # q
    /\ pc[p] = "done" /\ pc[q] = "done"
    /\ call[p].res.err = NoErr /\ call[q].res.err = NoErr
    /\ Location(call[p].path) = Location(call[q].path)
    /\ call[p].file.content # <<>>
    /\ call[q].file.content # <<>>
    /\ call[p].file.content # call[q].file.content
    /\ StoredContentIn(disk, bucket, call[q].path) = call[q].file.content

\* C5: every path a handler hands to the backend resolves inside the
\* configured root: at or below the root directory of the local backend, at
\* or below the key prefix of the S3 backend.
C5_PathConfinement ==
  last.op # "none"
  => IF backend = "local"
     THEN Location(last.path) = basePath \/ IsBeneath(Location(last.path), basePath)
     ELSE basePrefix # <<>>
          => Location(last.path) = basePrefix \/ IsBeneath(Location(last.path), basePrefix)

\* C6: with a key prefix configured, every key the S3 backend uses or stores
\* begins with the prefix.
C6_KeysUnderPrefix ==
  (backend = "s3" /\ basePrefix # <<>>)
  => /\ last.op # "none" => HasPrefix(getFullKey(last.path), basePrefix)
     /\ \A key \in DOMAIN bucket : HasPrefix(key, basePrefix)

\* C7: Get on a path where nothing exists fails with not-found, Get on a
\* directory fails with invalid-path; no stream is returned in either case.
C7_GetFailures ==
  last.op = "Get"
  => /\ NothingAtIn(disk, bucket, last.path) => last.res = Failure(FileNotFoundError)
     /\ DirectoryAtIn(disk, bucket, last.path) => last.res = Failure(ErrInvalidPath)

\* C8: Delete on a path where nothing exists (no file or directory on disk,
\* no object under the key) fails with not-found, Delete on a directory of
\* the disk fails with invalid-path, and both leave the media as they were.
C8_DeleteFailures ==
  [][ last'.op = "Delete"
      => /\ (IF backend = "local" THEN NothingAtIn(disk, bucket, last'.path)
             ELSE Location(last'.path) \notin DOMAIN bucket)
              => /\ last'.res = Failure(FileNotFoundError)
                 /\ disk' = disk /\ bucket' = bucket
         /\ (backend = "local" /\ DirectoryAtIn(disk, bucket, last'.path))
              => /\ last'.res = Failure(ErrInvalidPath)
                 /\ disk' = disk /\ bucket' = bucket ]_vars

\* C9: Exists on a path where no file or directory exists returns false and
\* no error.
C9_AbsenceIsNoError ==
  (last.op = "Exists" /\ NothingAtIn(disk, bucket, last.path))
  => last.res = Failure(NoErr)

\* C10: on the local backend, List on a path that is a plain file succeeds
\* with exactly one record: the base name of the path, the size of the file,
\* isDirectory false.
C10_ListOfFile ==
  (backend = "local" /\ last.op = "List" /\ HoldsContentIn(disk, bucket, last.path))
  => last.res
       = Result(NoErr, FALSE, <<>>, <<>>,
                <<FileInfo(Base(last.path),
                           Len(StoredContentIn(disk, bucket, last.path)), FALSE)>>)

\* C10 witness: List on a non-empty plain file below a directory
C10_Witness ==
  /\ backend = "local"
  /\ last.op = "List"
  /\ HoldsContentIn(disk, bucket, last.path)
  /\ StoredContentIn(disk, bucket, last.path) # <<>>
  /\ Len(last.res.files) = 1

\* C11: on the S3 backend, List on a path that names a stored object with no
\* objects beneath it succeeds with exactly one record describing that
\* object: the base name of the path, the size of the object, isDirectory
\* false.
C11_ListOfObject ==
  ( /\ backend = "s3"
    /\ last.op = "List"
    /\ Location(last.path) \in DOMAIN bucket
    /\ ~\E key \in DOMAIN bucket : IsBeneath(key, Location(last.path)) )
  => last.res
       = Result(NoErr, FALSE, <<>>, <<>>,
                <<FileInfo(Base(last.path),
                           Len(bucket[Location(last.path)].data), FALSE)>>)

\* C12: List on a path where nothing exists fails with not-found on both
\* backends: nothing on disk at the path, no key of the bucket equal to the
\* path or beneath it.
C12_ListOfNothing ==
  (last.op = "List" /\ NothingAtIn(disk, bucket, last.path))
  => last.res = Failure(FileNotFoundError)

\* The direct children of the location loc among the locations locs, each as
\* the name it has below loc: what follows loc and the "/" after it, when
\* that is not empty and holds no further "/".
ChildNames(locs, loc) ==
  LET stem == IF loc = <<>> THEN <<>> ELSE TrimTrailingSlashes(loc) \o <<Slash>>
      name(q) == SubSeq(q, Len(stem) + 1, Len(q))
  IN  { name(q) : q \in { x \in locs : /\ HasPrefix(x, stem)
                                       /\ Len(x) > Len(stem)
                                       /\ \A i \in (Len(stem) + 1)..Len(x) : x[i] # Slash } }

GroupNames(locs, loc) ==
  LET stem == IF loc = <<>> THEN <<>> ELSE TrimTrailingSlashes(loc) \o <<Slash>>
      ends(k) == { j \in (Len(stem) + 1)..(Len(k) - 1) :
                     /\ k[j + 1] = Slash
                     /\ \A i \in (Len(stem) + 1)..j : k[i] # Slash }
  IN  UNION { { SubSeq(k, Len(stem) + 1, j) : j \in ends(k) } :
              k \in { x \in locs : HasPrefix(x, stem) } }

\* The key prefix a logical path is listed under: the configured prefix for
\* the root, the key of the path otherwise
ListedUnder(path) == IF path \in { <<>>, <<Slash>> } THEN basePrefix ELSE Location(path)

\* C14: on the S3 backend, for every set of stored keys and every listed
\* prefix, List returns exactly one record per direct child: one with
\* isDirectory true for each distinct next segment that has keys beneath it,
\* one with isDirectory false for each key without a further "/" after the
\* prefix, and none for deeper keys, however many keys the prefix holds.
C14_ListOfPrefix ==
  (backend = "s3" /\ last.op = "List")
  => LET groups == GroupNames(DOMAIN bucket, ListedUnder(last.path))
         names == ChildNames(DOMAIN bucket, ListedUnder(last.path))
         files == last.res.files
     IN  /\ last.res.err = NoErr
         /\ Len(files) = Cardinality(groups) + Cardinality(names)
         /\ { files[i].Name : i \in { j \in 1..Len(files) : files[j].IsDirectory } } = groups
         /\ { files[i].Name : i \in { j \in 1..Len(files) : ~files[j].IsDirectory } } = names

\* C15: GetInfo fails as Get does: with not-found exactly when Get on the
\* same path and media fails with not-found, with invalid-path exactly when
\* Get does (on a directory in particular); when both succeed their records
\* agree in name and size; and GetInfo returns no stream.
C15_GetInfoFailsAsGet ==
  last.op = "GetInfo"
  => /\ (last.res.err = FileNotFoundError) = (StorageGet(last.path).err = FileNotFoundError)
     /\ (last.res.err = ErrInvalidPath) = (StorageGet(last.path).err = ErrInvalidPath)
     /\ (last.res.err = NoErr /\ StorageGet(last.path).err = NoErr)
          => /\ last.res.info[1].Name = StorageGet(last.path).info[1].Name
             /\ last.res.info[1].Size = StorageGet(last.path).info[1].Size
     /\ last.res.stream = <<>>

\* C16: the content type of an extension is the same on both backends, in
\* any letter case: getContentType and getContentTypeByExt return the same
\* type, application/pdf for .pdf, application/json for .json, text/plain for
\* .txt, and application/octet-stream for an extension outside the table.
C16_SameTypeOnBothBackends ==
  inferred.op = "getContentType"
  => /\ inferred.local = inferred.s3
     /\ ToLower(inferred.ext) = <<".", "p", "d", "f">> => inferred.s3 = "application/pdf"
     /\ ToLower(inferred.ext) = <<".", "j", "s", "o", "n">> => inferred.s3 = "application/json"
     /\ ToLower(inferred.ext) = <<".", "t", "x", "t">> => inferred.s3 = "text/plain"
     /\ ToLower(inferred.ext) \in { <<>>, <<".">>, <<".", "p", "d">>, <<"p", "d", "f">>,
                                    <<".", "p", "d", "f", "x">>, <<".", "z", "z">> }
          => inferred.s3 = "application/octet-stream"

\* C16 witness: an extension of the table written in upper case was given
\* its type, not the generic one, by both backends
C16_Witness ==
  /\ inferred.op = "getContentType"
  /\ inferred.ext # ToLower(inferred.ext)
  /\ inferred.local = "application/json"
  /\ inferred.s3 = "application/json"

\* C17: the content type S3Storage.Upload stores and returns is the type
\* sniffed from the content, or, when that is the generic
\* application/octet-stream, the type the table gives the extension of the
\* file name; the Content-Type header the caller sent with the file never
\* decides it.
C17_UploadTypeIsSniffed ==
  inferred.op = "Upload"
  => /\ DetectContentType(inferred.file.content) # "application/octet-stream"
          => inferred.ContentType = DetectContentType(inferred.file.content)
     /\ DetectContentType(inferred.file.content) = "application/octet-stream"
          => inferred.ContentType = getContentTypeByExt(Ext(inferred.file.Filename))
     /\ inferred.file.Header = <<"application/x-custom">>
          => inferred.ContentType # "application/x-custom"

\* C17 witness: a file sent as image/png whose content has no type of its
\* own was stored as what its extension says, a PDF
C17_Witness ==
  /\ inferred.op = "Upload"
  /\ inferred.file.Header = <<"image/png">>
  /\ DetectContentType(inferred.file.content) = "application/octet-stream"
  /\ inferred.ContentType = "application/pdf"

\* C18: on the local backend, an Upload to a path whose parent directory does
\* not exist (no directory at the parent location) fails with HTTP 400 and
\* leaves the disk as it was when createDirectories is off; when it is on,
\* the parent directories are created and the upload goes on, with success
\* when the source can be read.
C18_DirectoryPolicy ==
  [][ ( /\ backend = "local"
        /\ last'.op = "Upload"
        /\ ~( /\ Dir(Location(last'.path)) \in DOMAIN disk
              /\ disk[Dir(Location(last'.path))].isDir ) )
      => IF createDirectories
         THEN /\ Dir(Location(last'.path)) \in DOMAIN disk'
              /\ disk'[Dir(Location(last'.path))].isDir
              /\ last'.file.fault = "none" => last'.res.err = NoErr
         ELSE /\ last'.res.err.http = 400
              /\ disk' = disk ]_vars

\* C19: Upload is all-or-nothing: when an Upload to a path that holds no
\* file returns an error (the source cannot be opened or read, the copy
\* fails), the path holds no file afterwards, not even a partial or an empty
\* one, so that a later Upload to the path is not refused as already
\* existing.
C19_FailedUploadLeavesNothing ==
  [][ ( /\ last'.op = "Upload"
        /\ last'.res.err # NoErr
        /\ ~HoldsContentIn(disk, bucket, last'.path) )
      => ~HoldsContentIn(disk', bucket', last'.path) ]_vars

\* C20: both backends respect cancellation: a call (Upload, Get, Delete,
\* Exists, List, GetInfo) made with a context that is already cancelled or
\* past its deadline returns an error and changes nothing on the disk or in
\* the bucket.
C20_CancelledCallChangesNothing ==
  [][ ctx = "cancelled"
      => /\ last'.res.err # NoErr
         /\ disk' = disk
         /\ bucket' = bucket ]_vars

\* C21: a configuration with a problem (a storage type other than "local"
\* and "s3", S3 without a bucket, a custom S3 endpoint without access key or
\* secret key, an upload size or a timeout that is not positive) makes
\* Validate report it, and makes NewStorageProvider and
\* NewFilesystemProviderWithConfig return an error and no provider, without
\* creating a directory and without contacting the S3 service.
C21_InvalidConfigFailsFast ==
  [][ built'.op # "none"
      => /\ ( \/ built'.config.StorageType \notin {"local", "s3"}
              \/ built'.config.StorageType = "s3" /\ built'.config.S3Bucket = ""
              \/ /\ built'.config.StorageType = "s3"
                 /\ built'.config.S3Endpoint # ""
                 /\ built'.config.S3AccessKey = "" \/ built'.config.S3SecretKey = ""
              \/ built'.config.UploadMaxSizeMB <= 0
              \/ built'.config.TimeoutSecs <= 0 )
            => Validate(built'.config) # <<>>
         /\ Validate(built'.config) # <<>>
            => /\ built'.err # NoErr
               /\ built'.provider = <<>>
               /\ ~built'.contacted
               /\ disk' = disk ]_vars

\* C21 witness: a local configuration with two problems was refused with
\* 400 and both problems, and the base directory was not created
C21_Witness ==
  /\ built.op = "NewFilesystemProviderWithConfig"
  /\ built.config.StorageType = "local"
  /\ Len(built.details) = 2
  /\ built.err = WrapError(400)
  /\ built.provider = <<>>
  /\ basePath \notin DOMAIN disk

\* C22: a backend never swallows a failure of its medium: in particular,
\* when the S3 List finds no entry under a prefix without a trailing "/" and
\* probes the path with GetInfo, and the probe fails, List returns an error
\* rather than a successful result.
C22_ListReportsFailedProbe ==
  ( /\ backend = "s3"
    /\ last.op = "List"
    /\ ctx = "live"
    /\ ~HasSuffix(ListPrefix(last.path), <<Slash>>)
    /\ ListObjectsV2(bucket, ListPrefix(last.path)).Contents = <<>>
    /\ ListObjectsV2(bucket, ListPrefix(last.path)).CommonPrefixes = <<>>
    /\ S3GetInfo(bucket, last.path).err # NoErr )
  => last.res.err # NoErr

\* C23: the size limit is enforced by UploadHandler, not by the backend: a
\* refusal for size is HTTP 400 with code FILE_TOO_LARGE and is made without
\* a call of Provider.Upload, so that the media are unchanged; and no file
\* longer than MaxFileSize reaches Provider.Upload, while a file of exactly
\* MaxFileSize bytes does.
C23_SizeLimitInHandler ==
  [][ /\ response'.code = "FILE_TOO_LARGE"
         => /\ response'.status = 400
            /\ last' = last
            /\ disk' = disk
            /\ bucket' = bucket
      /\ last'.op = "Upload"
         => Len(last'.file.content) <= handlerConfig.MaxFileSize ]_vars

\* C23 witness: a file of exactly MaxFileSize bytes was stored, and after it
\* a longer file was refused for its size
C23_Witness ==
  /\ last.op = "Upload"
  /\ last.res.err = NoErr
  /\ Len(last.file.content) = handlerConfig.MaxFileSize
  /\ response = Response(400, "FILE_TOO_LARGE")

\* C24: pagination arithmetic.  For every Page, PageSize and record total >= 0
\* a Paginate that succeeds uses page = Page if Page > 0 else 1 and size =
\* PageSize if PageSize > 0 else 10, queries with limit = size and offset =
\* (page - 1) x size, reports as TotalPages the least n with n x size >= total,
\* and returns the effective page and size in the meta.
C24_PaginationArithmetic ==
  (pagination.op = "Paginate" /\ pagination.res.err = "nil")
  => /\ pagination.res.meta.Page =
          (IF IsPositive(pagination.params.Page)
           THEN pagination.params.Page ELSE Signed(1))
     /\ pagination.res.meta.PageSize =
          (IF IsPositive(pagination.params.PageSize)
           THEN pagination.params.PageSize ELSE Signed(10))
     /\ pagination.res.limit = pagination.res.meta.PageSize
     /\ pagination.res.offset =
          [neg |-> FALSE,
           mag |-> NatMul(NatSub(pagination.res.meta.Page.mag, <<1>>),
                          pagination.res.meta.PageSize.mag)]
     /\ ~pagination.res.meta.TotalPages.neg
     /\ ~NatLess(NatMul(pagination.res.meta.TotalPages.mag,
                        pagination.res.meta.PageSize.mag),
                 pagination.total)
     /\ \/ pagination.res.meta.TotalPages.mag = <<>>
        \/ NatLess(NatMul(NatSub(pagination.res.meta.TotalPages.mag, <<1>>),
                          pagination.res.meta.PageSize.mag),
                   pagination.total)

\* C25: logger level filtering.  The level of the logger is always one of
\* DEBUG..FATAL, a SetLevel above FATAL leaving it unchanged; a log call at
\* level L writes one line exactly when L is at least the level of the logger
\* and otherwise writes nothing; the process exits only on a FATAL call that
\* was not suppressed, and log exits on every such call.
C25_LevelFilter ==
  [][ /\ logger'.logLevel \in DEBUG..FATAL
      /\ logger'.call.op = "SetLevel"
         => /\ logger'.logLevel =
                 (IF logger'.call.arg \in DEBUG..FATAL
                  THEN logger'.call.arg ELSE logger.logLevel)
            /\ logger'.output = logger.output
      /\ logger'.call.op \in {"log", "logJSON"}
         => /\ logger'.logLevel = logger.logLevel
            /\ IF logger'.call.arg >= logger.logLevel
               THEN Len(logger'.output) = Len(logger.output) + 1
               ELSE logger'.output = logger.output
            /\ logger'.exited
               => /\ logger'.call.arg = FATAL
                  /\ logger'.output = Append(logger.output, "FATAL")
      /\ logger'.call.op = "log"
         => logger'.exited = (logger'.call.arg = FATAL) ]_vars

\* A suppressed call: once a DEBUG line is written and the level is raised to
\* FATAL, a log at ERROR leaves the output as it was.
C25_Witness ==
  /\ logger.call = [op |-> "log", arg |-> FATAL - 1]
  /\ logger.logLevel = FATAL
  /\ logger.output = <<"DEBUG">>
  /\ ~logger.exited

\* C26: Exists and Get agree in every reachable storage state.  For every
\* path, Exists returns false exactly when Get fails with the not-found error,
\* and returns true exactly when Get succeeds or fails with invalid-path.
C26_ExistsAgreesWithGet ==
  \A path \in paths :
    /\ ~StorageExists(path).found <=> StorageGet(path).err = FileNotFoundError
    /\ StorageExists(path).found
         <=> StorageGet(path).err \in {NoErr, ErrInvalidPath}

\* C27: concurrent deletes are linearizable per path.  When both callers have
\* returned from a Delete of the same path, and the path held a file when they
\* began (it still does, or a delete removed it), exactly one of them
\* returned success and the other the not-found error.
C27_OneDeleteWins ==
  \A p \in Procs, q \in Procs :
    ( /\ p # q
      /\ pc[p] = "done" /\ call[p].op = "Delete"
      /\ pc[q] = "done" /\ call[q].op = "Delete"
      /\ call[p].path = call[q].path
      /\ \/ Location(call[p].path) \in deleted
         \/ HoldsContentIn(disk, bucket, call[p].path) )
    => { call[p].res.err, call[q].res.err } = { NoErr, FileNotFoundError }

\* C28: frame of the storage operations.  Get, Exists, List and GetInfo change
\* nothing stored; a successful Delete(p) removes the file at p and nothing
\* else; a successful Upload(p) adds the file at p and nothing else, except
\* that the local backend with directory creation on also adds directories
\* above p; a failed Upload or Delete changes nothing.
C28_Frame ==
  [][ /\ last'.op \in {"Get", "Exists", "List", "GetInfo"}
         => disk' = disk /\ bucket' = bucket
      /\ (last'.op \in {"Upload", "Delete"} /\ last'.res.err # NoErr)
         => disk' = disk /\ bucket' = bucket
      /\ (last'.op = "Delete" /\ last'.res.err = NoErr)
         => /\ disk' = [q \in DOMAIN disk \ {Join(basePath, last'.path)} |-> disk[q]]
               \/ backend # "local"
            /\ bucket' = [q \in DOMAIN bucket \ {getFullKey(last'.path)} |-> bucket[q]]
               \/ backend = "local"
            /\ backend = "local" => bucket' = bucket
            /\ backend # "local" => disk' = disk
      /\ (last'.op = "Upload" /\ last'.res.err = NoErr)
         => /\ \A q \in DOMAIN disk : q \in DOMAIN disk' /\ disk'[q] = disk[q]
            /\ \A q \in DOMAIN bucket : q \in DOMAIN bucket' /\ bucket'[q] = bucket[q]
            /\ \A q \in DOMAIN disk' \ DOMAIN disk :
                 \/ q = Join(basePath, last'.path) /\ ~disk'[q].isDir
                 \/ /\ createDirectories
                    /\ disk'[q].isDir
                    /\ IsBeneath(Join(basePath, last'.path), q)
            /\ DOMAIN bucket' \ DOMAIN bucket \subseteq {getFullKey(last'.path)} ]_vars

\* C29: no stream or file handle leaks.  When Get or Upload returns, every
\* handle it opened is closed or is the stream it returns, and a stream is
\* returned only with a nil error and whenever Get succeeds; when
\* GetFileHandler returns, every handle opened is closed, the stream of a
\* successful Get included.
C29_NoHandleLeaks ==
  /\ handles.opened \ handles.closed = handles.returned
  /\ handles.closed \subseteq handles.opened
  /\ handles.returned # {} => handles.err = NoErr
  /\ handles.op = "Upload" => handles.returned = {}
  /\ handles.op = "Get" => (handles.returned # {} <=> last.res.stream # <<>>)
  /\ handles.op = "GetFileHandler" => handles.opened = handles.closed

\* GetFileHandler has served a file: the stream Get opened is closed.
C29_Witness ==
  /\ handles = Ledger("GetFileHandler", {"file"}, {"file"}, {}, NoErr)
  /\ response = Response(200, "OK")
  /\ last.res.stream # <<>>

\* C30: the content type of an object stored through S3Storage.Upload is the
\* same in every operation: the type Upload returned, the types Get and
\* GetInfo return for the path and the type List reports for the object are
\* equal, whatever the content, the file name and the destination.
C30_OneTypePerObject ==
  inferred.op = "Stored"
  => /\ inferred.Get = inferred.Upload
     /\ inferred.GetInfo = inferred.Upload
     /\ inferred.List = inferred.Upload

====
